---- MODULE Spec2Model ----
(***************************************************************************)
(* mypy-json-report: the message parser (MypyMessage.from_line), the       *)
(* ChangeTracker that reconciles a run against a stored baseline, and the  *)
(* `parse` command that drives them (src/mypy_json_report/parse.py,        *)
(* cli.py, exit_codes.py).                                                 *)
(*                                                                         *)
(* Strings are TLA+ strings; Python's str methods are modelled by the      *)
(* operators of the first section, computed as Python computes them.       *)
(***************************************************************************)
EXTENDS Integers, Sequences, FiniteSets, TLC

VARIABLES
    args,               \* the parsed command line
    stdin,              \* the lines of sys.stdin
    pc,                 \* where the run is: main, process, write, exited
    groups,             \* parse_message_lines: the (filename, messages) groups
    cursor,             \* parse_message_lines: the group and processor at hand
    outcome,            \* what from_lines / from_line gave: records or an exception
    calls,              \* history: the process_messages calls of the run, in order
    grouped_errors,     \* ErrorCounter.grouped_errors
    old_report,         \* ChangeTracker.old_report: file -> (message -> count)
    error_lines,        \* ChangeTracker.error_lines
    num_errors,         \* ChangeTracker.num_errors
    num_new_errors,     \* ChangeTracker.num_new_errors
    num_fixed_errors,   \* ChangeTracker.num_fixed_errors
    report,             \* the DiffReport returned last (it shares error_lines)
    exit_code,          \* the ExitCode returned last by a write_report
    stdout,             \* the strings written to sys.stdout
    stderr,             \* the strings written to sys.stderr
    output_file,        \* the text of the --output-file
    status,             \* the exit status of the process
    call,               \* history: the tracker operation performed last
    summary,            \* history: the summary the tracker was constructed with
    seen,               \* history: files the tracker's process_messages was called for
    before,             \* history: the tracker's fields when the last call began
    nfed,               \* history: number of records handed to the tracker
    fed_errors,         \* history: number of those with severity "error"
    nwrites             \* history: number of write_report calls on the tracker

runVars ==
    <<args, stdin, pc, groups, cursor, outcome, calls, grouped_errors, stderr,
      output_file, status>>

trackerVars == <<old_report, error_lines, num_errors, num_new_errors, num_fixed_errors>>

historyVars == <<call, summary, seen, before, nfed, fed_errors, nwrites>>

vars == <<runVars, trackerVars, historyVars, report, exit_code, stdout>>

-----------------------------------------------------------------------------
(* Bounds *)

MaxFed == 3             \* records handed to process_messages over a tracker's life
MaxOldCount == 2        \* largest count of one message in the stored baseline
MaxWrites == 1          \* write_report calls on one tracker
MaxStdin == 3           \* lines of standard input

-----------------------------------------------------------------------------
(* Python str methods *)

Min(S) == CHOOSE x \in S : \A y \in S : x <= y

IsSpace(c) == c \in {" ", "\n", "\t", "\r"}

RECURSIVE lstrip(_)
lstrip(s) ==
    IF Len(s) > 0 /\ IsSpace(SubSeq(s, 1, 1))
    THEN lstrip(SubSeq(s, 2, Len(s)))
    ELSE s

\* (rstrip taking one trailing newline off and nothing else)
rstrip_Newline(s) ==
    IF Len(s) > 0 /\ SubSeq(s, Len(s), Len(s)) = "\n"
    THEN SubSeq(s, 1, Len(s) - 1)
    ELSE s

RECURSIVE rstrip(_)
rstrip(s) ==
    IF Len(s) > 0 /\ IsSpace(SubSeq(s, Len(s), Len(s)))
    THEN rstrip(SubSeq(s, 1, Len(s) - 1))
    ELSE s

strip(s) == lstrip(rstrip(s))

\* str.find, 1-based; 0 when sep does not occur
find(s, sep) ==
    LET hits == {i \in 1..(Len(s) - Len(sep) + 1) :
                    SubSeq(s, i, i + Len(sep) - 1) = sep}
    IN  IF hits = {} THEN 0 ELSE Min(hits)

\* str.split(sep, maxsplit); maxsplit = -1 splits at every occurrence
RECURSIVE split(_, _, _)
split(s, sep, maxsplit) ==
    LET i == find(s, sep)
    IN  IF maxsplit = 0 \/ i = 0
        THEN <<s>>
        ELSE <<SubSeq(s, 1, i - 1)>>
                \o split(SubSeq(s, i + Len(sep), Len(s)), sep, maxsplit - 1)

Digits == "0123456789"

IsDigit(c) == find(Digits, c) > 0

RECURSIVE DigitsValue(_, _)
DigitsValue(s, acc) ==
    IF Len(s) = 0 THEN acc
    ELSE DigitsValue(SubSeq(s, 2, Len(s)),
                     10 * acc + (find(Digits, SubSeq(s, 1, 1)) - 1))

\* The decimal literals int() accepts: surrounding whitespace and one sign
\* around at least one digit.  int() raises ValueError on any other string.
IsIntLiteral(s) ==
    LET t == strip(s)
        signed == Len(t) > 0 /\ SubSeq(t, 1, 1) \in {"+", "-"}
        d == IF signed THEN SubSeq(t, 2, Len(t)) ELSE t
    IN  Len(d) > 0 /\ \A i \in 1..Len(d) : IsDigit(SubSeq(d, i, i))

int(s) ==
    LET t == strip(s)
        signed == Len(t) > 0 /\ SubSeq(t, 1, 1) \in {"+", "-"}
        d == IF signed THEN SubSeq(t, 2, Len(t)) ELSE t
    IN  IF signed /\ SubSeq(t, 1, 1) = "-"
        THEN 0 - DigitsValue(d, 0)
        ELSE DigitsValue(d, 0)

\* sub in s
contains(s, sub) == find(s, sub) > 0

\* str.rfind, 1-based; 0 when sep does not occur
rfind(s, sep) ==
    LET hits == {i \in 1..(Len(s) - Len(sep) + 1) :
                    SubSeq(s, i, i + Len(sep) - 1) = sep}
    IN  IF hits = {} THEN 0 ELSE CHOOSE i \in hits : \A j \in hits : j <= i

\* s.partition(sep) as <<head, sep, tail>>
partition(s, sep) ==
    LET i == find(s, sep)
    IN  IF i = 0 THEN <<s, "", "">>
        ELSE <<SubSeq(s, 1, i - 1), sep, SubSeq(s, i + Len(sep), Len(s))>>

\* s.rpartition(sep)
rpartition(s, sep) ==
    LET i == rfind(s, sep)
    IN  IF i = 0 THEN <<"", "", s>>
        ELSE <<SubSeq(s, 1, i - 1), sep, SubSeq(s, i + Len(sep), Len(s))>>

endswith(s, suffix) ==
    Len(suffix) <= Len(s) /\ SubSeq(s, Len(s) - Len(suffix) + 1, Len(s)) = suffix

\* s.count(c) for a single character c
str_count(s, c) == Cardinality({i \in 1..Len(s) : SubSeq(s, i, i) = c})

\* The printable ASCII characters in code order, 32 to 95 and 97 to 126
AsciiLow ==
    " !\"#$%&'()*+,-./0123456789:;<=>?@ABCDEFGHIJKLMNOPQRSTUVWXYZ[\\]^_"

AsciiHigh == "abcdefghijklmnopqrstuvwxyz{|}~"

ord(c) ==
    IF contains(AsciiLow, c) THEN find(AsciiLow, c) + 31 ELSE find(AsciiHigh, c) + 96

\* s < t for str
RECURSIVE StrLess(_, _)
StrLess(s, t) ==
    IF Len(t) = 0 THEN FALSE
    ELSE IF Len(s) = 0 THEN TRUE
    ELSE IF SubSeq(s, 1, 1) = SubSeq(t, 1, 1)
         THEN StrLess(SubSeq(s, 2, Len(s)), SubSeq(t, 2, Len(t)))
         ELSE ord(SubSeq(s, 1, 1)) < ord(SubSeq(t, 1, 1))

\* sorted(): stable, ascending; the elements are <<key, value>> pairs with
\* a str key
RECURSIVE InsertSorted(_, _)
InsertSorted(done, x) ==
    IF done = <<>> THEN <<x>>
    ELSE IF StrLess(x[1], done[Len(done)][1])
         THEN Append(InsertSorted(SubSeq(done, 1, Len(done) - 1), x),
                     done[Len(done)])
         ELSE Append(done, x)

\* (sorted leaving the pairs in the order given)
sorted_Unsorted(pairs) == pairs

RECURSIVE sorted(_)
sorted(pairs) ==
    IF pairs = <<>> THEN <<>>
    ELSE InsertSorted(sorted(SubSeq(pairs, 1, Len(pairs) - 1)), pairs[Len(pairs)])

-----------------------------------------------------------------------------
(* MypyMessage *)

ERROR == "error"

MypyMessage(filename, line_number, message, message_type, raw) ==
    [filename |-> filename, line_number |-> line_number, message |-> message,
     message_type |-> message_type, raw |-> raw]

\* (from_line refusing a location of more than three parts, as it once did)
from_line_TwoOrThree(line) ==
    LET parts == split(strip(line), ": ", 2)
    IN  IF Len(parts) # 3
        THEN [raises |-> "SkipLineError"]
        ELSE LET loc == split(parts[1], ":", -1)
             IN  IF Len(loc) \notin {2, 3}
                 THEN [raises |-> "SkipLineError"]
                 ELSE IF ~IsIntLiteral(loc[2])
                 THEN [raises |-> "ValueError"]
                 ELSE [raises |-> "",
                       value |-> MypyMessage(loc[1], int(loc[2]), parts[3],
                                             parts[2], rstrip(line))]

\* (from_line unpacking the location into filename and line number only)
from_line_NoColumn(line) ==
    LET parts == split(strip(line), ": ", 2)
    IN  IF Len(parts) # 3
        THEN [raises |-> "SkipLineError"]
        ELSE LET loc == split(parts[1], ":", -1)
             IN  IF Len(loc) # 2 \/ ~IsIntLiteral(loc[2])
                 THEN [raises |-> "ValueError"]
                 ELSE [raises |-> "",
                       value |-> MypyMessage(loc[1], int(loc[2]), parts[3],
                                             parts[2], rstrip(line))]

\* The outcome of from_line: a record, or the exception it raises.
from_line(line) ==
    LET parts == split(strip(line), ": ", 2)
    IN  IF Len(parts) # 3
        THEN [raises |-> "SkipLineError"]
        ELSE LET location == parts[1]
                 message_type == parts[2]
                 message == parts[3]
                 loc == split(location, ":", -1)
             IN  IF Len(loc) < 2
                 THEN [raises |-> "FilenameWithoutLineNumberError",
                       text |-> "Error message from mypy contains a filename but no line number. "
                                \o "This is normally an indication of a file-level issue reported by mypy. "
                                \o "Please correct this and try again. The error emitted from mypy is:\n\n"
                                \o "    " \o strip(line)]
                 ELSE IF ~IsIntLiteral(loc[2])
                 THEN [raises |-> "ValueError"]
                 ELSE [raises |-> "",
                       value |-> MypyMessage(loc[1], int(loc[2]), message,
                                             message_type, rstrip(line))]

\* (from_lines ending at the first line that is skipped)
RECURSIVE from_lines_StopAtSkip(_)
from_lines_StopAtSkip(lines) ==
    IF lines = <<>> THEN [raises |-> "", value |-> <<>>]
    ELSE LET first == from_line(Head(lines))
             rest == from_lines_StopAtSkip(Tail(lines))
         IN  IF first.raises = "SkipLineError" THEN [raises |-> "", value |-> <<>>]
             ELSE IF first.raises # "" THEN first
             ELSE IF rest.raises # "" THEN rest
             ELSE [raises |-> "", value |-> <<first.value>> \o rest.value]

\* (from_lines skipping every line from_line refuses)
RECURSIVE from_lines_SkipAll(_)
from_lines_SkipAll(lines) ==
    IF lines = <<>> THEN [raises |-> "", value |-> <<>>]
    ELSE LET first == from_line(Head(lines))
             rest == from_lines_SkipAll(Tail(lines))
         IN  IF first.raises # "" THEN rest
             ELSE [raises |-> "", value |-> <<first.value>> \o rest.value]

\* (from_lines ending without an exception at the first line from_line
\* refuses for another reason than to skip it)
RECURSIVE from_lines_UpToFailure(_)
from_lines_UpToFailure(lines) ==
    IF lines = <<>> THEN [raises |-> "", value |-> <<>>]
    ELSE LET first == from_line(Head(lines))
             rest == from_lines_UpToFailure(Tail(lines))
         IN  IF first.raises = "SkipLineError" THEN rest
             ELSE IF first.raises # "" THEN [raises |-> "", value |-> <<>>]
             ELSE [raises |-> "", value |-> <<first.value>> \o rest.value]

\* MypyMessage.from_lines, consumed to its end: the records of the lines, or
\* the exception of the first line that raises one other than SkipLineError
RECURSIVE from_lines(_)
from_lines(lines) ==
    IF lines = <<>> THEN [raises |-> "", value |-> <<>>]
    ELSE LET first == from_line(Head(lines))
             rest == from_lines(Tail(lines))
         IN  IF first.raises = "SkipLineError" THEN rest
             ELSE IF first.raises # "" THEN first
             ELSE IF rest.raises # "" THEN rest
             ELSE [raises |-> "", value |-> <<first.value>> \o rest.value]

\* (the messages left in input order, as before the sort was added)
sorted_by_filename_Unsorted(messages) == messages

\* sorted(messages, key=operator.attrgetter("filename"))
sorted_by_filename(messages) ==
    LET pairs == sorted([i \in DOMAIN messages |-> <<messages[i].filename, messages[i]>>])
    IN  [i \in DOMAIN pairs |-> pairs[i][2]]

\* itertools.groupby(messages_sorted, key=operator.attrgetter("filename")),
\* each group made a list
RECURSIVE groupby(_)
groupby(messages) ==
    IF messages = <<>> THEN <<>>
    ELSE LET rest == groupby(Tail(messages))
             m == Head(messages)
         IN  IF rest # <<>> /\ rest[1].filename = m.filename
             THEN <<[filename |-> m.filename, messages |-> <<m>> \o rest[1].messages]>>
                    \o Tail(rest)
             ELSE <<[filename |-> m.filename, messages |-> <<m>>]>> \o rest

-----------------------------------------------------------------------------
(* dict, defaultdict(list) and Counter.                                    *)
(* A dict whose iteration order is never observed is a function on its     *)
(* keys.  A Counter is the sequence of its items in insertion order, since *)
(* ChangeTracker iterates over one.                                        *)

EmptyDict == [k \in {} |-> 0]

DictSet(d, k, v) == [x \in (DOMAIN d) \cup {k} |-> IF x = k THEN v ELSE d[x]]

\* d.pop(k, default): the value
DictPopValue(d, k, default) == IF k \in DOMAIN d THEN d[k] ELSE default

\* (DictPop leaving the entry in place, as d.get does)
DictPop_Get(d, k) == d

\* d.pop(k, default): the dict afterwards
DictPop(d, k) == [x \in (DOMAIN d) \ {k} |-> d[x]]

\* defaultdict(list)[k] as a read of an existing or a fresh entry
ListOf(d, k) == IF k \in DOMAIN d THEN d[k] ELSE <<>>

RECURSIVE SeqSum(_)
SeqSum(ns) == IF ns = <<>> THEN 0 ELSE Head(ns) + SeqSum(Tail(ns))

CounterKeys(c) == {c[i].key : i \in DOMAIN c}

\* c[key], 0 for a missing key
CounterGet(c, key) ==
    IF key \in CounterKeys(c)
    THEN c[CHOOSE i \in DOMAIN c : c[i].key = key].count
    ELSE 0

\* (CounterUpdate storing 1 for the key, as c[key] = 1 does)
CounterUpdate_Once(c, key) ==
    IF key \in CounterKeys(c) THEN c ELSE Append(c, [key |-> key, count |-> 1])

\* c.update([key])
CounterUpdate(c, key) ==
    IF key \in CounterKeys(c)
    THEN [i \in DOMAIN c |->
            IF c[i].key = key THEN [key |-> key, count |-> c[i].count + 1] ELSE c[i]]
    ELSE Append(c, [key |-> key, count |-> 1])

\* (CounterSub keeping zero and negative counts, as Counter.subtract does)
CounterSub_Subtract(a, b) ==
    [i \in DOMAIN a |->
        [key |-> a[i].key, count |-> a[i].count - CounterGet(b, a[i].key)]]

\* (CounterSub not looking at b)
CounterSub_Left(a, b) == a

\* Counter.__sub__: the positive differences in the order of a, then the
\* negated negative counts of the keys only b has
CounterSub(a, b) ==
    LET diff == [i \in DOMAIN a |->
                    [key |-> a[i].key, count |-> a[i].count - CounterGet(b, a[i].key)]]
        Pos(item) == item.count > 0
        OnlyNeg(item) == item.key \notin CounterKeys(a) /\ item.count < 0
        neg == SelectSeq(b, OnlyNeg)
    IN  SelectSeq(diff, Pos)
            \o [i \in DOMAIN neg |-> [key |-> neg[i].key, count |-> 0 - neg[i].count]]

\* (CounterTotal counting the keys, as len(c) does)
CounterTotal_Len(c) == Len(c)

\* sum(c.values())
CounterTotal(c) == SeqSum([i \in DOMAIN c |-> c[i].count])

-----------------------------------------------------------------------------
(* ExitCode *)

SUCCESS == 0
UNCAUGHT_EXCEPTION == 1
ARGUMENT_PARSING_ERROR == 2
ERROR_DIFF == 3
DEPRECATED == 4

-----------------------------------------------------------------------------
(* DiffReport and its writers *)

DiffReport(lines, total, new, fixed) ==
    [error_lines |-> lines, total_errors |-> total,
     num_new_errors |-> new, num_fixed_errors |-> fixed]

\* sep.join(strs)
RECURSIVE join(_, _)
join(sep, strs) ==
    IF strs = <<>> THEN ""
    ELSE IF Len(strs) = 1 THEN strs[1]
    ELSE strs[1] \o sep \o join(sep, Tail(strs))

\* (write_report writing the evidence and the blank line also when there is
\* no evidence)
DefaultChangeReportWriter_write_report_AlwaysLines(diff) ==
    << join("\n", diff.error_lines) \o "\n\n",
       "Fixed errors: " \o ToString(diff.num_fixed_errors) \o "\n",
       "New errors: " \o ToString(diff.num_new_errors) \o "\n",
       "Total errors: " \o ToString(diff.total_errors) \o "\n" >>

\* The strings DefaultChangeReportWriter.write_report hands to self.write
DefaultChangeReportWriter_write_report(diff) ==
    LET new_errors == join("\n", diff.error_lines)
    IN  (IF new_errors # "" THEN <<new_errors \o "\n\n">> ELSE <<>>)
        \o << "Fixed errors: " \o ToString(diff.num_fixed_errors) \o "\n",
              "New errors: " \o ToString(diff.num_new_errors) \o "\n",
              "Total errors: " \o ToString(diff.total_errors) \o "\n" >>

\* ESC, the character "\033", written as its escape sequence
ESC == "\\033"

_RESET == ESC \o "[0m"
_BOLD == ESC \o "[1m"
_BOLD_RED == ESC \o "[31;1m"
_BOLD_YELLOW == ESC \o "[33;1m"
_GREEN == ESC \o "[32m"
_YELLOW == ESC \o "[33m"
_BLUE == ESC \o "[34m"

_style(style, message) == style \o message \o _RESET

\* The loop of _highlight_quotes over msg.split('"')
RECURSIVE HighlightParts(_, _)
HighlightParts(parts, i) ==
    IF i >= Len(parts) THEN ""
    ELSE (IF i % 2 = 0
          THEN parts[i + 1]
          ELSE _style(_BOLD, "\"" \o parts[i + 1] \o "\""))
            \o HighlightParts(parts, i + 1)

_highlight_quotes(msg) ==
    IF str_count(msg, "\"") % 2 = 1 THEN msg
    ELSE HighlightParts(split(msg, "\"", -1), 0)

_format_line(line) ==
    IF contains(line, ": error: ")
    THEN LET location == partition(line, " error: ")[1]
             message == partition(line, " error: ")[3]
             coded == endswith(message, "]") /\ contains(message, "  [")
             error_msg == IF coded THEN rpartition(message, "  [")[1] ELSE message
             code == IF coded
                     THEN _style(_YELLOW, "  [" \o rpartition(message, "  [")[3])
                     ELSE ""
         IN  location \o _style(_BOLD_RED, " error: ")
                \o _highlight_quotes(error_msg) \o code
    ELSE IF contains(line, ": note: ")
    THEN partition(line, " note: ")[1] \o _style(_BLUE, " note: ")
            \o _highlight_quotes(partition(line, " note: ")[3])
    ELSE line

\* The strings ColorChangeReportWriter.write_report hands to self.write
ColorChangeReportWriter_write_report(diff) ==
    LET new_errors == join("\n", [i \in DOMAIN diff.error_lines |->
                                    _format_line(diff.error_lines[i])])
        fixed_color == IF diff.num_fixed_errors # 0 THEN _BOLD_YELLOW ELSE _GREEN
        error_color == IF diff.num_new_errors # 0 THEN _BOLD_RED ELSE _GREEN
    IN  (IF new_errors # "" THEN <<new_errors \o "\n\n">> ELSE <<>>)
        \o << _style(fixed_color, "Fixed errors: " \o ToString(diff.num_fixed_errors) \o "\n"),
              _style(error_color, "New errors: " \o ToString(diff.num_new_errors) \o "\n"),
              _style(_BOLD, "Total errors: " \o ToString(diff.total_errors) \o "\n") >>

-----------------------------------------------------------------------------
(* json.dumps(errors, sort_keys=True, indent=indentation) *)

RECURSIVE Spaces(_)
Spaces(n) == IF n <= 0 THEN "" ELSE " " \o Spaces(n - 1)

\* A str as a JSON string: quotes and backslashes escaped
RECURSIVE JsonEscape(_)
JsonEscape(s) ==
    IF Len(s) = 0 THEN ""
    ELSE LET c == SubSeq(s, 1, 1)
         IN  (IF c = "\"" THEN "\\\""
              ELSE IF c = "\\" THEN "\\\\"
              ELSE IF c = "\n" THEN "\\n"
              ELSE c) \o JsonEscape(SubSeq(s, 2, Len(s)))

JsonString(s) == "\"" \o JsonEscape(s) \o "\""

\* A dict given as the sequence of its <<key, rendered value>> pairs
JsonObject(pairs, indent, level) ==
    LET newline_indent == "\n" \o Spaces(indent * (level + 1))
        members == [i \in DOMAIN pairs |-> JsonString(pairs[i][1]) \o ": " \o pairs[i][2]]
    IN  IF pairs = <<>> THEN "{}"
        ELSE "{" \o newline_indent \o join("," \o newline_indent, members)
                \o "\n" \o Spaces(indent * level) \o "}"

\* The pairs of a dict that is a function on its keys, in any order
RECURSIVE DictPairs(_)
DictPairs(d) ==
    IF DOMAIN d = {} THEN <<>>
    ELSE LET k == CHOOSE k \in DOMAIN d : TRUE
         IN  <<<<k, d[k]>>>> \o DictPairs([x \in (DOMAIN d) \ {k} |-> d[x]])

json_dumps(errors, indent) ==
    LET files == sorted(DictPairs(errors))
        Table(counter) ==
            LET items == sorted([i \in DOMAIN counter |->
                                    <<counter[i].key, ToString(counter[i].count)>>])
            IN  JsonObject(items, indent, 1)
    IN  JsonObject([i \in DOMAIN files |-> <<files[i][1], Table(files[i][2])>>],
                   indent, 0)

\* json.load of a text that holds a summary: an object of objects of
\* integers.  Whitespace between the tokens is skipped.
JsonWhitespace == {" ", "\n", "\t", "\r"}

RECURSIVE SkipSpace(_, _)
SkipSpace(text, i) ==
    IF i <= Len(text) /\ SubSeq(text, i, i) \in JsonWhitespace
    THEN SkipSpace(text, i + 1)
    ELSE i

\* The string whose opening quote precedes position i, and the position
\* after its closing quote
RECURSIVE ScanString(_, _, _)
ScanString(text, i, acc) ==
    LET c == SubSeq(text, i, i)
    IN  IF c = "\"" THEN [value |-> acc, next |-> i + 1]
        ELSE IF c = "\\"
        THEN LET e == SubSeq(text, i + 1, i + 1)
             IN  ScanString(text, i + 2, acc \o (IF e = "n" THEN "\n" ELSE e))
        ELSE ScanString(text, i + 1, acc \o c)

\* The position after the digits that begin at position i
RECURSIVE ScanInt(_, _)
ScanInt(text, i) ==
    IF i <= Len(text) /\ IsDigit(SubSeq(text, i, i))
    THEN ScanInt(text, i + 1)
    ELSE i

\* The members of an object from position i on, up to its closing brace:
\* at level 0 the tables of the files, at level 1 the counts of a table
RECURSIVE ScanMembers(_, _, _, _)
ScanMembers(text, i, level, acc) ==
    LET j == SkipSpace(text, i)
        c == SubSeq(text, j, j)
    IN  IF c = "}" THEN [value |-> acc, next |-> j + 1]
        ELSE IF c = "," THEN ScanMembers(text, j + 1, level, acc)
        ELSE LET key == ScanString(text, j + 1, "")
                 colon == SkipSpace(text, key.next)
                 start == SkipSpace(text, colon + 1)
             IN  IF level = 0
                 THEN LET table == ScanMembers(text, start + 1, 1, <<>>)
                      IN  ScanMembers(text, table.next, level,
                                      DictSet(acc, key.value, table.value))
                 ELSE LET end == ScanInt(text, start)
                      IN  ScanMembers(text, end, level,
                                Append(acc, [key |-> key.value,
                                             count |-> int(SubSeq(text, start, end - 1))]))

json_load(text) == ScanMembers(text, SkipSpace(text, 1) + 1, 0, EmptyDict).value

-----------------------------------------------------------------------------
(* ErrorCounter *)

\* Counter(error_strings)
RECURSIVE CountErrors(_, _)
CountErrors(messages, counted_errors) ==
    IF messages = <<>> THEN counted_errors
    ELSE CountErrors(Tail(messages),
            IF Head(messages).message_type = ERROR
            THEN CounterUpdate(counted_errors, Head(messages).message)
            ELSE counted_errors)

\* (process_messages storing the table of the batch even when it is empty)
ErrorCounter_process_messages_Always(filename, messages) ==
    DictSet(grouped_errors, filename, CountErrors(messages, <<>>))

\* grouped_errors after ErrorCounter.process_messages
ErrorCounter_process_messages(filename, messages) ==
    LET counted_errors == CountErrors(messages, <<>>)
    IN  IF counted_errors # <<>>
        THEN DictSet(grouped_errors, filename, counted_errors)
        ELSE grouped_errors

\* The string ErrorCounter.write_report hands to report_writer
ErrorCounter_write_report(indentation) ==
    json_dumps(grouped_errors, indentation) \o "\n"

-----------------------------------------------------------------------------
(* ChangeTracker *)

\* (is_error with the severity not looked at)
is_error_AnySeverity(message) == TRUE

\* message.message_type == "error"
is_error(message) == message.message_type = ERROR

\* (append_raw putting the line first)
append_raw_First(messages_by_line_number, message) ==
    DictSet(messages_by_line_number, message.line_number,
            <<message.raw>> \o ListOf(messages_by_line_number, message.line_number))

\* messages_by_line_number[message.line_number].append(message.raw)
append_raw(messages_by_line_number, message) ==
    DictSet(messages_by_line_number, message.line_number,
            Append(ListOf(messages_by_line_number, message.line_number), message.raw))

\* (Index counting the errors by their whole line, not by their message)
RECURSIVE Index_ByRaw(_, _)
Index_ByRaw(messages, acc) ==
    IF messages = <<>> THEN acc
    ELSE LET message == Head(messages)
             counted == is_error(message)
             by_line == acc.messages_by_line_number
             by_error == acc.line_numbers_by_error
         IN  Index_ByRaw(Tail(messages),
                [errors |-> IF counted THEN acc.errors + 1 ELSE acc.errors,
                 error_frequencies |->
                    IF counted
                    THEN CounterUpdate(acc.error_frequencies, message.raw)
                    ELSE acc.error_frequencies,
                 line_numbers_by_error |->
                    IF counted
                    THEN DictSet(by_error, message.raw,
                                 Append(ListOf(by_error, message.raw),
                                        message.line_number))
                    ELSE by_error,
                 messages_by_line_number |-> append_raw(by_line, message)])

\* The first loop of process_messages: the three indexes and the number of
\* error records, folded over the batch.
RECURSIVE Index(_, _)
Index(messages, acc) ==
    IF messages = <<>> THEN acc
    ELSE LET message == Head(messages)
             counted == is_error(message)
             by_line == acc.messages_by_line_number
             by_error == acc.line_numbers_by_error
         IN  Index(Tail(messages),
                [errors |-> IF counted THEN acc.errors + 1 ELSE acc.errors,
                 error_frequencies |->
                    IF counted
                    THEN CounterUpdate(acc.error_frequencies, message.message)
                    ELSE acc.error_frequencies,
                 line_numbers_by_error |->
                    IF counted
                    THEN DictSet(by_error, message.message,
                                 Append(ListOf(by_error, message.message),
                                        message.line_number))
                    ELSE by_error,
                 messages_by_line_number |-> append_raw(by_line, message)])

IndexInit ==
    [errors |-> 0, error_frequencies |-> <<>>,
     line_numbers_by_error |-> EmptyDict, messages_by_line_number |-> EmptyDict]

\* The line numbers the second loop visits, in the order it visits them
RECURSIVE LinesToVisit(_, _)
LinesToVisit(new_errors_in_file, line_numbers_by_error) ==
    IF new_errors_in_file = <<>> THEN <<>>
    ELSE ListOf(line_numbers_by_error, Head(new_errors_in_file).key)
            \o LinesToVisit(Tail(new_errors_in_file), line_numbers_by_error)

\* (Extend giving one line per line number)
RECURSIVE Extend_OneEach(_, _)
Extend_OneEach(line_numbers, messages_by_line_number) ==
    IF line_numbers = <<>> THEN <<>>
    ELSE LET lines == DictPopValue(messages_by_line_number, Head(line_numbers), <<>>)
         IN  (IF lines = <<>> THEN <<>> ELSE <<lines[1]>>)
                \o Extend_OneEach(Tail(line_numbers),
                                   DictPop(messages_by_line_number, Head(line_numbers)))

\* messages_by_line_number.pop(line_number, []) for each visited line
RECURSIVE Extend(_, _)
Extend(line_numbers, messages_by_line_number) ==
    IF line_numbers = <<>> THEN <<>>
    ELSE DictPopValue(messages_by_line_number, Head(line_numbers), <<>>)
            \o Extend(Tail(line_numbers),
                      DictPop(messages_by_line_number, Head(line_numbers)))

\* (process_messages keeping the entry of a file whose batch has no error)
process_messages_PopIfErrors(filename, messages) ==
    LET idx == Index(messages, IndexInit)
        error_frequencies == idx.error_frequencies
        old_report_counter == DictPopValue(old_report, filename, <<>>)
        new_errors_in_file == CounterSub(error_frequencies, old_report_counter)
        resolved_errors == CounterSub(old_report_counter, error_frequencies)
    IN  [old_report |-> IF idx.errors = 0 THEN old_report
                        ELSE DictPop(old_report, filename),
         num_errors |-> num_errors + idx.errors,
         num_new_errors |-> num_new_errors + CounterTotal(new_errors_in_file),
         error_lines |->
            error_lines \o Extend(LinesToVisit(new_errors_in_file,
                                               idx.line_numbers_by_error),
                                  idx.messages_by_line_number),
         num_fixed_errors |-> num_fixed_errors + CounterTotal(resolved_errors)]

\* The effect of process_messages on the tracker's fields
process_messages(filename, messages) ==
    LET idx == Index(messages, IndexInit)
        error_frequencies == idx.error_frequencies
        old_report_counter == DictPopValue(old_report, filename, <<>>)
        new_errors_in_file == CounterSub(error_frequencies, old_report_counter)
        resolved_errors == CounterSub(old_report_counter, error_frequencies)
    IN  [old_report |-> DictPop(old_report, filename),
         num_errors |-> num_errors + idx.errors,
         num_new_errors |-> num_new_errors + CounterTotal(new_errors_in_file),
         error_lines |->
            error_lines \o Extend(LinesToVisit(new_errors_in_file,
                                               idx.line_numbers_by_error),
                                  idx.messages_by_line_number),
         num_fixed_errors |-> num_fixed_errors + CounterTotal(resolved_errors)]

\* (diff_report without the files never seen)
diff_report_SeenOnly ==
    DiffReport(error_lines, num_errors, num_new_errors, num_fixed_errors)

diff_report ==
    LET files == DOMAIN old_report
        RECURSIVE Unseen(_)
        Unseen(fs) ==
            IF fs = {} THEN 0
            ELSE LET f == CHOOSE f \in fs : TRUE
                 IN  CounterTotal(old_report[f]) + Unseen(fs \ {f})
        unseen_errors == Unseen(files)
    IN  DiffReport(error_lines, num_errors, num_new_errors,
                   num_fixed_errors + unseen_errors)

\* (write_report_code looking at the new errors only)
write_report_code_NewOnly(diff) ==
    IF diff.num_new_errors # 0 THEN ERROR_DIFF ELSE SUCCESS

\* The exit code of write_report for the report it obtained
write_report_code(diff) ==
    IF diff.num_new_errors # 0 \/ diff.num_fixed_errors # 0
    THEN ERROR_DIFF
    ELSE SUCCESS

-----------------------------------------------------------------------------
(* The inputs of the model: a few lines of mypy output for two files, and  *)
(* the summaries an earlier run over such lines can have stored.           *)

Files == {"a.py", "b.py"}

DiagnosticLines ==
    {"a.py:1: error: X\n", "a.py:2: error: X\n", "a.py:2:5: error: Y\n",
     "b.py:1: error: X\n", "b.py:1: note: N\n"}

\* The records from_line makes of the lines of each file
Records ==
    [filename \in Files |->
        {from_line(line).value : line \in {l \in DiagnosticLines :
            /\ from_line(l).raises = ""
            /\ from_line(l).value.filename = filename}}]

\* The batches of at most n records of one file; parse_message_lines never
\* delivers an empty one
Batches(filename, n) == UNION {[1..k -> Records[filename]] : k \in 1..n}

\* The tables a stored summary can hold for a file, keys ascending as
\* ErrorCounter.write_report writes them.  a.py has errors X and Y (Y on one
\* line only), b.py has error X.
Item(key, n) == [key |-> key, count |-> n]

Entry(key, n) == IF n = 0 THEN <<>> ELSE <<Item(key, n)>>

Tables ==
    [filename \in Files |->
        IF filename = "a.py"
        THEN {Entry("X", x) \o Entry("Y", y) : x \in 0..MaxOldCount, y \in 0..1}
        ELSE {Entry("X", x) : x \in 0..MaxOldCount}]

\* A summary has a key for every file with errors and for no other file
Summaries ==
    {[f \in {g \in Files : t[g] # <<>>} |-> t[f]] :
        t \in {u \in [Files -> UNION {Tables[f] : f \in Files}] :
                    \A f \in Files : u[f] \in Tables[f]}}

\* What standard input can hold: diagnostics, mypy's summary line, a
\* file-level diagnostic, and a diagnostic for a path with a drive letter
StdinLines ==
    {"a.py:1: error: X\n", "a.py:2:5: error: Y\n",
     "b.py:1: error: X\n", "b.py:1: note: N\n",
     "Found 3 errors in 2 files (checked 2 source files)\n",
     "b.py: error: Source file found twice\n",
     "C:\\a.py:1: error: X\n"}

Inputs == UNION {[1..n -> StdinLines] : n \in 0..MaxStdin}

\* The summaries --diff-old-report is given in a run
RunSummaries ==
    {old \in Summaries :
        \A f \in DOMAIN old : \A i \in DOMAIN old[f] :
            old[f][i].key = "X" /\ old[f][i].count = 1}

\* --indentation, by default
DefaultIndentation == 2

Args(command, out, diff, color) ==
    [command |-> command, output_file |-> out, diff_old_report |-> diff,
     color |-> color, indentation |-> DefaultIndentation]

\* The command lines of the model; --color is given with --diff-old-report
CommandLines ==
    {Args("", FALSE, FALSE, FALSE)}
        \cup {Args("parse", out, diff, color /\ diff) :
                out \in BOOLEAN, diff \in BOOLEAN, color \in BOOLEAN}

-----------------------------------------------------------------------------
(* State shared by the specifications *)

\* outcome before from_lines or from_line is called
NotCalled == <<>>

\* The fields of the tracker
Fields ==
    [old_report |-> old_report, error_lines |-> error_lines,
     num_errors |-> num_errors, num_new_errors |-> num_new_errors,
     num_fixed_errors |-> num_fixed_errors]

\* call.first: no earlier process_messages call was for call.filename
NoCall == [op |-> "__init__", filename |-> "", messages |-> <<>>, first |-> FALSE]

\* ChangeTracker.__init__(summary, report_writer)
TrackerInit(old) ==
    /\ old_report = old
    /\ summary = old
    /\ error_lines = <<>>
    /\ num_errors = 0
    /\ num_new_errors = 0
    /\ num_fixed_errors = 0
    /\ call = NoCall
    /\ report = <<>>
    /\ exit_code = <<>>
    /\ seen = {}
    /\ before = Fields
    /\ nfed = 0
    /\ fed_errors = 0
    /\ nwrites = 0

\* tracker.process_messages(filename, messages).  A DiffReport returned
\* earlier holds the tracker's own error_lines list, not a copy.
TrackerProcess(filename, messages) ==
    LET after == process_messages(filename, messages)
    IN  /\ old_report' = after.old_report
        /\ error_lines' = after.error_lines
        /\ num_errors' = after.num_errors
        /\ num_new_errors' = after.num_new_errors
        /\ num_fixed_errors' = after.num_fixed_errors
        /\ report' = [i \in DOMAIN report |->
                        [report[i] EXCEPT !.error_lines = after.error_lines]]
        /\ call' = [op |-> "process_messages", filename |-> filename,
                    messages |-> messages, first |-> filename \notin seen]
        /\ seen' = seen \cup {filename}
        /\ before' = Fields
        /\ nfed' = nfed + Len(messages)
        /\ fed_errors' = fed_errors
                + Cardinality({i \in DOMAIN messages :
                                messages[i].message_type = "error"})
        /\ UNCHANGED <<exit_code, summary, nwrites>>

\* The writer _parse_command gives the tracker: both are constructed without
\* an argument, so that self.write is sys.stdout.write
change_report_writer(diff) ==
    IF args.color
    THEN ColorChangeReportWriter_write_report(diff)
    ELSE DefaultChangeReportWriter_write_report(diff)

\* tracker.write_report()
TrackerWrite ==
    LET diff == diff_report
    IN  /\ report' = <<diff>>
        /\ stdout' = stdout \o change_report_writer(diff)
        /\ exit_code' = <<write_report_code(diff)>>
        /\ nwrites' = nwrites + 1
        /\ call' = [NoCall EXCEPT !.op = "write_report"]
        /\ before' = Fields
        /\ UNCHANGED <<trackerVars, summary, seen, nfed, fed_errors>>

-----------------------------------------------------------------------------
(* Spec: a ChangeTracker called as its unit tests call it *)

Init ==
    /\ args = Args("parse", FALSE, TRUE, FALSE)
    /\ stdin = <<>>
    /\ pc = "tracker"
    /\ groups = <<>>
    /\ cursor = [group |-> 1, processor |-> 1]
    /\ outcome = NotCalled
    /\ calls = <<>>
    /\ grouped_errors = EmptyDict
    /\ stdout = <<>>
    /\ stderr = <<>>
    /\ output_file = ""
    /\ status = <<>>
    /\ \E old \in Summaries : TrackerInit(old)

ProcessMessages ==
    \E filename \in Files :
      \E messages \in Batches(filename, MaxFed - nfed) :
        /\ TrackerProcess(filename, messages)
        /\ UNCHANGED <<runVars, stdout>>

\* (diff_report adding the errors of the unseen files to the tracker's own
\* num_fixed_errors)
DiffReportCall_AddsUnseen ==
    /\ report' = <<diff_report>>
    /\ num_fixed_errors' = diff_report.num_fixed_errors
    /\ call' = [NoCall EXCEPT !.op = "diff_report"]
    /\ before' = Fields
    /\ UNCHANGED <<runVars, old_report, error_lines, num_errors, num_new_errors,
                   exit_code, stdout, summary, seen, nfed, fed_errors, nwrites>>

\* tracker.diff_report()
DiffReportCall ==
    /\ report' = <<diff_report>>
    /\ call' = [NoCall EXCEPT !.op = "diff_report"]
    /\ before' = Fields
    /\ UNCHANGED <<runVars, trackerVars, exit_code, stdout, summary, seen, nfed,
                   fed_errors, nwrites>>

WriteReport ==
    /\ nwrites < MaxWrites
    /\ TrackerWrite
    /\ UNCHANGED runVars

Next == ProcessMessages \/ DiffReportCall \/ WriteReport

Spec == Init /\ [][Next]_vars

-----------------------------------------------------------------------------
(* RunSpec: one run of the program, main() to sys.exit() *)

\* The processors _parse_command builds
Processors ==
    IF args.command = "parse_message_lines"
    THEN args.processors
    ELSE IF args.diff_old_report
    THEN <<"ErrorCounter", "ChangeTracker">>
    ELSE <<"ErrorCounter">>

RunInit ==
    /\ args \in CommandLines
    /\ stdin \in (IF args.command = "parse" THEN Inputs ELSE {<<>>})
    /\ pc = "main"
    /\ groups = <<>>
    /\ cursor = [group |-> 1, processor |-> 1]
    /\ outcome = NotCalled
    /\ calls = <<>>
    /\ grouped_errors = EmptyDict
    /\ stdout = <<>>
    /\ stderr = <<>>
    /\ output_file = ""
    /\ status = <<>>
    /\ \E old \in (IF args.diff_old_report THEN RunSummaries ELSE {EmptyDict}) :
            TrackerInit(old)

\* main() -> _no_command
NoCommand ==
    /\ pc = "main"
    /\ args.command = ""
    /\ stderr' = Append(stderr, "A subcommand is required. Pass --help for usage info.\n")
    /\ status' = <<DEPRECATED>>
    /\ pc' = "exited"
    /\ UNCHANGED <<args, stdin, groups, cursor, outcome, calls, grouped_errors,
                   output_file, trackerVars, historyVars, report, exit_code,
                   stdout>>

\* main() -> _parse_command -> parse_message_lines, up to the groups.  An
\* exception of from_lines is caught nowhere: the interpreter prints it to
\* sys.stderr and exits with 1.
ParseCommand ==
    /\ pc = "main"
    /\ args.command = "parse"
    /\ LET messages == from_lines(stdin)
       IN  /\ outcome' = messages
           /\ IF messages.raises # ""
              THEN /\ stderr' = Append(stderr,
                           messages.raises
                               \o (IF messages.raises = "FilenameWithoutLineNumberError"
                                   THEN ": " \o messages.text ELSE "")
                               \o "\n")
                   /\ status' = <<UNCAUGHT_EXCEPTION>>
                   /\ pc' = "exited"
                   /\ UNCHANGED groups
              ELSE /\ groups' = groupby(sorted_by_filename(messages.value))
                   /\ pc' = IF groups' = <<>> THEN "write" ELSE "process"
                   /\ UNCHANGED <<stderr, status>>
    /\ UNCHANGED <<args, stdin, cursor, calls, grouped_errors, output_file,
                   trackerVars, historyVars, report, exit_code, stdout>>

\* The cursor after processor.process_messages(filename, message_group)
NextDelivery ==
    IF cursor.processor < Len(Processors)
    THEN [cursor EXCEPT !.processor = @ + 1]
    ELSE [group |-> cursor.group + 1, processor |-> 1]

\* (message_group left the iterator of groupby, which the first processor
\* that reads it exhausts)
message_group_Iterator(group, processor) ==
    IF processor = 1 THEN groups[group].messages ELSE <<>>

\* message_group = list(messages), as the processor at a position of the
\* list receives it
message_group(group, processor) == groups[group].messages

Delivered ==
    /\ calls' = Append(calls, [processor |-> Processors[cursor.processor],
                               filename |-> groups[cursor.group].filename,
                               messages |-> message_group(cursor.group,
                                                          cursor.processor)])
    /\ cursor' = NextDelivery
    /\ pc' = IF cursor'.group > Len(groups) THEN "write" ELSE "process"

\* processor.process_messages(filename, message_group), processor an ErrorCounter
CounterProcess ==
    /\ pc = "process"
    /\ Processors[cursor.processor] = "ErrorCounter"
    /\ grouped_errors' = ErrorCounter_process_messages(
                            groups[cursor.group].filename,
                            message_group(cursor.group, cursor.processor))
    /\ Delivered
    /\ UNCHANGED <<args, stdin, groups, outcome, stderr, output_file, status,
                   trackerVars, historyVars, report, exit_code, stdout>>

\* processor.process_messages(filename, message_group), processor the ChangeTracker
TrackerProcessGroup ==
    /\ pc = "process"
    /\ Processors[cursor.processor] = "ChangeTracker"
    /\ TrackerProcess(groups[cursor.group].filename,
                      message_group(cursor.group, cursor.processor))
    /\ Delivered
    /\ UNCHANGED <<args, stdin, groups, outcome, grouped_errors, stderr,
                   output_file, status, stdout>>

\* (Written going on to the write_report of every processor)
Written_All ==
    IF cursor.processor = Len(Processors)
    THEN /\ status' = exit_code'
         /\ pc' = "exited"
         /\ UNCHANGED cursor
    ELSE /\ cursor' = [cursor EXCEPT !.processor = @ + 1]
         /\ UNCHANGED <<status, pc>>

\* The rest of parse_message_lines and _parse_command after a write_report
\* returned exit_code'[1]: return it if it is not SUCCESS, go on with the next
\* processor, or return SUCCESS after the last; sys.exit() what was returned
Written ==
    IF exit_code'[1] # SUCCESS \/ cursor.processor = Len(Processors)
    THEN /\ status' = exit_code'
         /\ pc' = "exited"
         /\ UNCHANGED cursor
    ELSE /\ cursor' = [cursor EXCEPT !.processor = @ + 1]
         /\ UNCHANGED <<status, pc>>

\* processor.write_report(), processor an ErrorCounter: report_writer is
\* args.output_file.write_text or sys.stdout.write
CounterWrite ==
    /\ pc = "write"
    /\ Processors[cursor.processor] = "ErrorCounter"
    /\ IF args.output_file
       THEN /\ output_file' = ErrorCounter_write_report(args.indentation)
            /\ UNCHANGED stdout
       ELSE /\ stdout' = Append(stdout, ErrorCounter_write_report(args.indentation))
            /\ UNCHANGED output_file
    /\ exit_code' = <<SUCCESS>>
    /\ Written
    /\ UNCHANGED <<args, stdin, groups, outcome, calls, grouped_errors, stderr,
                   trackerVars, historyVars, report>>

\* processor.write_report(), processor the ChangeTracker
TrackerWriteReport ==
    /\ pc = "write"
    /\ Processors[cursor.processor] = "ChangeTracker"
    /\ TrackerWrite
    /\ Written
    /\ UNCHANGED <<args, stdin, groups, outcome, calls, grouped_errors, stderr,
                   output_file>>

RunNext ==
    \/ NoCommand
    \/ ParseCommand
    \/ CounterProcess
    \/ TrackerProcessGroup
    \/ CounterWrite
    \/ TrackerWriteReport

RunSpec == RunInit /\ [][RunNext]_vars

-----------------------------------------------------------------------------
(* CallSpec: parse_message_lines called with a list of processors *)

\* The lists of the two processors _parse_command constructs, each at most
\* once, in either order
ProcessorLists ==
    {<<"ErrorCounter">>, <<"ChangeTracker">>,
     <<"ErrorCounter", "ChangeTracker">>, <<"ChangeTracker", "ErrorCounter">>}

HasProcessor(processors, name) ==
    \E i \in DOMAIN processors : processors[i] = name

\* The arguments of a call: the processors write to sys.stdout, the tracker
\* through a DefaultChangeReportWriter
CallArgs(processors) ==
    [command |-> "parse_message_lines", processors |-> processors,
     output_file |-> FALSE,
     diff_old_report |-> HasProcessor(processors, "ChangeTracker"),
     color |-> FALSE, indentation |-> DefaultIndentation]

\* The lines of a call: diagnostics of two files, a note, a file-level error
CallLines ==
    {"a.py:1: error: X\n", "a.py:2:5: error: Y\n", "b.py:1: error: X\n",
     "b.py:1: note: N\n", "b.py: error: Source file found twice\n"}

CallInputs == UNION {[1..n -> CallLines] : n \in 0..MaxStdin}

CallInit ==
    /\ \E processors \in ProcessorLists : args = CallArgs(processors)
    /\ stdin \in CallInputs
    /\ pc = "call"
    /\ groups = <<>>
    /\ cursor = [group |-> 1, processor |-> 1]
    /\ outcome = NotCalled
    /\ calls = <<>>
    /\ grouped_errors = EmptyDict
    /\ stdout = <<>>
    /\ stderr = <<>>
    /\ output_file = ""
    /\ status = <<>>
    /\ \E old \in (IF args.diff_old_report THEN RunSummaries ELSE {EmptyDict}) :
            TrackerInit(old)

\* parse_message_lines(processors, lines) up to the groups.  An exception of
\* from_lines leaves the function: nothing is returned.
ParseMessageLines ==
    /\ pc = "call"
    /\ LET messages == from_lines(stdin)
       IN  /\ outcome' = messages
           /\ IF messages.raises # ""
              THEN /\ pc' = "raised"
                   /\ UNCHANGED groups
              ELSE /\ groups' = groupby(sorted_by_filename(messages.value))
                   /\ pc' = IF groups' = <<>> THEN "write" ELSE "process"
    /\ UNCHANGED <<args, stdin, cursor, calls, grouped_errors, stderr, status,
                   output_file, trackerVars, historyVars, report, exit_code,
                   stdout>>

CallNext ==
    \/ ParseMessageLines
    \/ CounterProcess
    \/ TrackerProcessGroup
    \/ CounterWrite
    \/ TrackerWriteReport

CallSpec == CallInit /\ [][CallNext]_vars

-----------------------------------------------------------------------------
(* TripSpec: a run that writes the summary of its input to a file, and a   *)
(* second run over the same input with that file as --diff-old-report      *)

TripInit ==
    /\ args = Args("parse", TRUE, FALSE, FALSE)
    /\ stdin \in Inputs
    /\ pc = "main"
    /\ groups = <<>>
    /\ cursor = [group |-> 1, processor |-> 1]
    /\ outcome = NotCalled
    /\ calls = <<>>
    /\ grouped_errors = EmptyDict
    /\ stdout = <<>>
    /\ stderr = <<>>
    /\ output_file = ""
    /\ status = <<>>
    /\ TrackerInit(EmptyDict)

\* main() once more, with --diff-old-report the file the first run wrote:
\* _load_json_file and the constructors of _parse_command
DiffAgainstOutput ==
    /\ pc = "exited"
    /\ ~args.diff_old_report
    /\ status = <<SUCCESS>>
    /\ \E color \in BOOLEAN : args' = Args("parse", FALSE, TRUE, color)
    /\ pc' = "main"
    /\ groups' = <<>>
    /\ cursor' = [group |-> 1, processor |-> 1]
    /\ outcome' = NotCalled
    /\ calls' = <<>>
    /\ grouped_errors' = EmptyDict
    /\ stdout' = <<>>
    /\ stderr' = <<>>
    /\ status' = <<>>
    /\ LET old == json_load(output_file)
       IN  /\ old_report' = old
           /\ summary' = old
           /\ before' = [old_report |-> old, error_lines |-> <<>>,
                         num_errors |-> 0, num_new_errors |-> 0,
                         num_fixed_errors |-> 0]
    /\ error_lines' = <<>>
    /\ num_errors' = 0
    /\ num_new_errors' = 0
    /\ num_fixed_errors' = 0
    /\ call' = NoCall
    /\ report' = <<>>
    /\ exit_code' = <<>>
    /\ seen' = {}
    /\ nfed' = 0
    /\ fed_errors' = 0
    /\ nwrites' = 0
    /\ UNCHANGED <<stdin, output_file>>

TripNext ==
    \/ ParseCommand
    \/ CounterProcess
    \/ CounterWrite
    \/ DiffAgainstOutput
    \/ TrackerProcessGroup
    \/ TrackerWriteReport

TripSpec == TripInit /\ [][TripNext]_vars

-----------------------------------------------------------------------------
(* UnitSpec: MypyMessage.from_line, MypyMessage.from_lines and             *)
(* ErrorCounter.process_messages called as their unit tests call them      *)

\* The parts the lines given to from_line are put together from: relative
\* paths, line numbers and texts that are no numbers, no column, a column,
\* a column that is no number and a column with an end position, two
\* severities, and messages that hold the delimiter, end in a blank or are
\* empty
LineFiles == {"a.py", "pkg/b.py"}

LineNumbers == {1, 20}

NotNumbers == {"x"}

LineColumns == {"", ":5", ":x", ":5:9"}

Severities == {"error", "note"}

LineMessages == {"X", "Y: Z", "X ", ""}

LineEnds == {"\n", ""}

DiagnosticLine(file, n, column, severity, msg, end) ==
    file \o ":" \o n \o column \o ": " \o severity \o ": " \o msg \o end

\* A diagnostic for a file as a whole
FileLevelLine(file, severity, msg, end) ==
    file \o ": " \o severity \o ": " \o msg \o end

Diagnostics ==
    {DiagnosticLine(file, n, column, severity, msg, end) :
        file \in LineFiles,
        n \in {ToString(k) : k \in LineNumbers} \cup NotNumbers,
        column \in LineColumns, severity \in Severities,
        msg \in LineMessages, end \in LineEnds}

FileLevelLines ==
    {FileLevelLine(file, severity, msg, end) :
        file \in LineFiles, severity \in Severities,
        msg \in LineMessages, end \in LineEnds}

\* Lines with fewer than two delimiters: mypy's summary lines, an empty
\* line, a line cut short
SummaryLines ==
    {"Found 1 error in 1 file (checked 3 source files)\n",
     "Success: no issues found in 1 source file\n",
     "\n",
     "a.py:1: error\n"}

TestLines == Diagnostics \cup FileLevelLines \cup SummaryLines

\* The records a test hands to ErrorCounter.process_messages for a file:
\* errors whose messages differ in case or in a blank, and a note
CounterRecords(filename) ==
    {MypyMessage(filename, 1, e[2], e[1],
                 filename \o ":1: " \o e[1] \o ": " \o e[2]) :
        e \in {<<"error", "X">>, <<"error", "x">>, <<"error", " X">>,
               <<"note", "X">>}}

\* A call costs its records, and an empty batch costs as much as one record
Cost(messages) == IF messages = <<>> THEN 1 ELSE Len(messages)

Spent == SeqSum([i \in DOMAIN calls |-> Cost(calls[i].messages)])

CounterBatches(filename, n) ==
    UNION {[1..k -> CounterRecords(filename)] : k \in 0..n}

UnitInit ==
    /\ args = Args("parse", FALSE, FALSE, FALSE)
    /\ stdin = <<>>
    /\ pc = "test"
    /\ groups = <<>>
    /\ cursor = [group |-> 1, processor |-> 1]
    /\ outcome = NotCalled
    /\ calls = <<>>
    /\ grouped_errors = EmptyDict
    /\ stdout = <<>>
    /\ stderr = <<>>
    /\ output_file = ""
    /\ status = <<>>
    /\ TrackerInit(EmptyDict)

\* MypyMessage.from_line(line)
FromLine ==
    /\ pc = "test"
    /\ \E line \in TestLines :
        /\ stdin' = <<line>>
        /\ outcome' = from_line(line)
    /\ pc' = "from_line"
    /\ UNCHANGED <<args, groups, cursor, calls, grouped_errors, stderr,
                   output_file, status, trackerVars, historyVars, report,
                   exit_code, stdout>>

\* list(MypyMessage.from_lines(lines))
FromLines ==
    /\ pc = "test"
    /\ \E lines \in Inputs :
        /\ stdin' = lines
        /\ outcome' = from_lines(lines)
    /\ pc' = "from_lines"
    /\ UNCHANGED <<args, groups, cursor, calls, grouped_errors, stderr,
                   output_file, status, trackerVars, historyVars, report,
                   exit_code, stdout>>

\* error_counter.process_messages(filename, messages)
CountMessages ==
    /\ pc \in {"test", "process_messages"}
    /\ \E filename \in Files :
        \E messages \in CounterBatches(filename, MaxFed - Spent) :
            /\ Spent + Cost(messages) <= MaxFed
            /\ grouped_errors' = ErrorCounter_process_messages(filename, messages)
            /\ calls' = Append(calls, [processor |-> "ErrorCounter",
                                       filename |-> filename,
                                       messages |-> messages])
    /\ pc' = "process_messages"
    /\ UNCHANGED <<args, stdin, groups, cursor, outcome, stderr, output_file,
                   status, trackerVars, historyVars, report, exit_code, stdout>>

\* error_counter.write_report(), the report writer appending to stdout
CounterWriteReport ==
    /\ pc \in {"test", "process_messages"}
    /\ stdout' = Append(stdout, ErrorCounter_write_report(args.indentation))
    /\ exit_code' = <<SUCCESS>>
    /\ pc' = "write_report"
    /\ UNCHANGED <<args, stdin, groups, cursor, outcome, calls, grouped_errors,
                   stderr, output_file, status, trackerVars, historyVars, report>>

UnitNext == FromLine \/ FromLines \/ CountMessages \/ CounterWriteReport

UnitSpec == UnitInit /\ [][UnitNext]_vars

-----------------------------------------------------------------------------
(* Vocabulary of the properties *)

Max2(a, b) == IF a >= b THEN a ELSE b

Min2(a, b) == IF a <= b THEN a ELSE b

RECURSIVE SumOver(_, _)
SumOver(S, f) ==
    IF S = {} THEN 0
    ELSE LET x == CHOOSE x \in S : TRUE IN f[x] + SumOver(S \ {x}, f)

\* Number of positions of seq that hold x
Count(seq, x) == Cardinality({i \in DOMAIN seq : seq[i] = x})

\* Every message text a batch or a stored summary of the model can hold
Messages ==
    {m.message : m \in UNION {Records[f] : f \in Files}}
        \cup UNION {{t[i].key : i \in DOMAIN t} :
                        t \in UNION {Tables[f] : f \in Files}}

Processing == call.op = "process_messages"

Reporting == call.op \in {"diff_report", "write_report"}

\* Number of error records of the last batch with message m
CurrentCount(m) ==
    Cardinality({i \in DOMAIN call.messages :
                    /\ call.messages[i].message_type = "error"
                    /\ call.messages[i].message = m})

\* The count of m for `filename` in the summary the tracker was built with
SummaryCount(filename, m) ==
    IF filename \in DOMAIN summary
    THEN SumOver({i \in DOMAIN summary[filename] : summary[filename][i].key = m},
                 [i \in DOMAIN summary[filename] |-> summary[filename][i].count])
    ELSE 0

\* All counts of `filename` in that summary
SummaryTotal(filename) ==
    SumOver(Messages, [m \in Messages |-> SummaryCount(filename, m)])

\* The baseline count the last call found for m: the stored one on the first
\* call for a file, none afterwards
BaselineCount(m) == IF call.first THEN SummaryCount(call.filename, m) ELSE 0

\* The lines the last process_messages call added to error_lines
Added ==
    SubSeq(error_lines, Len(before.error_lines) + 1, Len(error_lines))

\* The raw lines of the last batch
BatchRaw == [i \in DOMAIN call.messages |-> call.messages[i].raw]

\* The line numbers of the last batch that hold an error whose message
\* exceeds its baseline count
NewLines ==
    {call.messages[i].line_number : i \in
        {j \in DOMAIN call.messages :
            /\ call.messages[j].message_type = "error"
            /\ CurrentCount(call.messages[j].message)
                    > BaselineCount(call.messages[j].message)}}

-----------------------------------------------------------------------------
(* Properties of ChangeTracker.process_messages and diff_report *)

\* C1: the first process_messages call for a file adds to num_new_errors the
\* sum over the messages of max(0, current count - baseline count), and that
\* sum plus the sum of min(current, baseline) is the number of error records
\* of the batch.
C1_NewErrors ==
    (Processing /\ call.first) =>
        LET new == num_new_errors - before.num_new_errors
        IN  /\ new = SumOver(Messages, [m \in Messages |->
                        Max2(0, CurrentCount(m) - BaselineCount(m))])
            /\ new + SumOver(Messages, [m \in Messages |->
                        Min2(CurrentCount(m), BaselineCount(m))])
                 = Cardinality({i \in DOMAIN call.messages :
                                    call.messages[i].message_type = "error"})

\* a batch with two occurrences more than the baseline holds
C1_Witness ==
    /\ Processing /\ call.first
    /\ call.filename \in DOMAIN summary
    /\ \E m \in Messages : BaselineCount(m) = 1 /\ CurrentCount(m) = 3
    /\ num_new_errors - before.num_new_errors = 2

\* C2: the first process_messages call for a file of the baseline adds to
\* num_fixed_errors the sum over the messages of max(0, baseline count -
\* current count); that sum plus the sum of min(current, baseline) is the total
\* of the file's baseline counts.
C2_FixedErrors ==
    (Processing /\ call.first /\ call.filename \in DOMAIN summary) =>
        LET fixed == num_fixed_errors - before.num_fixed_errors
        IN  /\ fixed = SumOver(Messages, [m \in Messages |->
                        Max2(0, BaselineCount(m) - CurrentCount(m))])
            /\ fixed + SumOver(Messages, [m \in Messages |->
                        Min2(CurrentCount(m), BaselineCount(m))])
                 = SummaryTotal(call.filename)

\* one message is partially fixed (2 -> 1) while another has equal counts
C2_Witness ==
    /\ Processing /\ call.first
    /\ \E m \in Messages : BaselineCount(m) = 2 /\ CurrentCount(m) = 1
    /\ \E m \in Messages : BaselineCount(m) = 1 /\ CurrentCount(m) = 1
    /\ num_fixed_errors - before.num_fixed_errors = 1

\* C3: the report's num_fixed_errors is the tracker's per-file fixed count
\* plus every count of the baseline files process_messages was never called
\* for; with no batch at all it is the sum of all baseline counts.
C3_UnseenFilesFixed ==
    Reporting =>
        /\ report[1].num_fixed_errors
              = num_fixed_errors
                + SumOver((DOMAIN summary) \ seen,
                          [f \in DOMAIN summary |-> SummaryTotal(f)])
        /\ seen = {} =>
              report[1].num_fixed_errors
                = SumOver(DOMAIN summary, [f \in DOMAIN summary |-> SummaryTotal(f)])

\* one baseline file was processed and partially fixed, the other never seen
C3_Witness ==
    /\ Reporting
    /\ seen = {"a.py"}
    /\ DOMAIN summary = {"a.py", "b.py"}
    /\ num_fixed_errors = 1
    /\ report[1].num_fixed_errors = 3

\* C4: num_errors, and total_errors of a report just made, is the number of
\* records of severity "error" over all processed batches.
C4_TotalErrors ==
    /\ num_errors = fed_errors
    /\ Reporting => report[1].total_errors = fed_errors

\* a note and two errors went in, over a baseline that knows the file
C4_Witness ==
    /\ Reporting
    /\ nfed = 3
    /\ report[1].total_errors = 2
    /\ "b.py" \in seen /\ "b.py" \in DOMAIN summary

\* C5: for every message of the batch whose count exceeds its baseline count,
\* error_lines receives the raw line of every record of the batch, of any
\* severity, on every line number the message occurred on.
C5_AllLinesOfNewMessage ==
    Processing =>
        \A j \in DOMAIN call.messages :
            call.messages[j].line_number \in NewLines =>
                Count(Added, call.messages[j].raw) = Count(BatchRaw, call.messages[j].raw)

\* residual 1 of a message on two lines, a known error sharing one of them
C5_Witness ==
    /\ Processing /\ call.first
    /\ CurrentCount("X") = 2 /\ BaselineCount("X") = 1
    /\ CurrentCount("Y") = 1 /\ BaselineCount("Y") = 1
    /\ Len(Added) = 3

\* a note on the line of a new error is emitted with it
C5_WitnessNote ==
    /\ Processing
    /\ \E i, j \in DOMAIN call.messages :
          /\ call.messages[i].message_type = "note"
          /\ call.messages[j].message_type = "error"
          /\ call.messages[i].line_number = call.messages[j].line_number
          /\ Count(Added, call.messages[i].raw) = 1

\* C7: a raw line enters error_lines only if it is the line of a record of
\* the batch whose line number holds an error whose message exceeds its
\* baseline count.
C7_OnlyLinesOfNewErrors ==
    Processing =>
        \A k \in DOMAIN Added :
            \E j \in DOMAIN call.messages :
                /\ call.messages[j].raw = Added[k]
                /\ call.messages[j].line_number \in NewLines

\* a batch of known and partially fixed errors adds nothing, after another
\* file had new errors
C7_Witness ==
    /\ Processing /\ call.first
    /\ call.filename = "a.py"
    /\ CurrentCount("X") = 1 /\ BaselineCount("X") = 2
    /\ CurrentCount("Y") = 1 /\ BaselineCount("Y") = 1
    /\ Added = <<>>
    /\ before.error_lines # <<>>

\* C8: one process_messages call adds the raw line of a record at most once.
C8_AtMostOnce ==
    Processing =>
        \A r \in {BatchRaw[i] : i \in DOMAIN BatchRaw} \cup {Added[k] : k \in DOMAIN Added} :
            Count(Added, r) <= Count(BatchRaw, r)

\* two distinct new messages on one line number, one of them also elsewhere
C8_Witness ==
    /\ Processing
    /\ \E i, j \in DOMAIN call.messages :
          /\ call.messages[i].line_number = call.messages[j].line_number
          /\ call.messages[i].message # call.messages[j].message
          /\ call.messages[i].message_type = "error"
          /\ call.messages[j].message_type = "error"
    /\ Len(call.messages) = 3
    /\ Len(Added) = 3

\* Is a a subsequence of b (the elements of a occur in b, in the same order)
RECURSIVE IsSubsequence(_, _)
IsSubsequence(a, b) ==
    IF a = <<>> THEN TRUE
    ELSE IF b = <<>> THEN FALSE
    ELSE IF Head(a) = Head(b) THEN IsSubsequence(Tail(a), Tail(b))
    ELSE IsSubsequence(a, Tail(b))

LineOf(r) ==
    call.messages[CHOOSE i \in DOMAIN call.messages : call.messages[i].raw = r].line_number

\* The raw lines of the last batch on line number n, in batch order
RawAt(n) ==
    LET OnLine(m) == m.line_number = n
        on == SelectSeq(call.messages, OnLine)
    IN  [i \in DOMAIN on |-> on[i].raw]

\* The line numbers of the added lines, each once, in order of appearance
RECURSIVE LineGroups(_, _)
LineGroups(lines, found) ==
    IF lines = <<>> THEN <<>>
    ELSE IF LineOf(Head(lines)) \in found THEN LineGroups(Tail(lines), found)
    ELSE <<LineOf(Head(lines))>>
            \o LineGroups(Tail(lines), found \cup {LineOf(Head(lines))})

RECURSIVE Flatten(_)
Flatten(seqs) == IF seqs = <<>> THEN <<>> ELSE Head(seqs) \o Flatten(Tail(seqs))

-----------------------------------------------------------------------------
(* Properties of a run *)

Exited == pc = "exited"

\* The records of standard input, when every line is one or is skipped
Parsed == from_lines(stdin)

Aborted == Parsed.raises # ""

\* Number of error records of standard input for `filename` with message m
InputCount(filename, m) ==
    LET records == Parsed.value
    IN  Cardinality({i \in DOMAIN records :
                        /\ records[i].filename = filename
                        /\ records[i].message_type = "error"
                        /\ records[i].message = m})

\* The new and the fixed errors of standard input against the stored summary
InputNew ==
    SumOver(Files \X Messages,
            [c \in Files \X Messages |->
                Max2(0, InputCount(c[1], c[2]) - SummaryCount(c[1], c[2]))])

InputFixed ==
    SumOver(Files \X Messages,
            [c \in Files \X Messages |->
                Max2(0, SummaryCount(c[1], c[2]) - InputCount(c[1], c[2]))])

\* C9 as stated: the exit status is SUCCESS when no baseline comparison was
\* requested or it found no new and no fixed error, ERROR_DIFF when it found
\* one, and DEPRECATED, neither 0 nor ERROR_DIFF, without a sub-command.
C9_ExitStatus ==
    Exited =>
        IF args.command = ""
        THEN status = <<DEPRECATED>> /\ DEPRECATED \notin {0, ERROR_DIFF}
        ELSE IF ~args.diff_old_report
        THEN status = <<SUCCESS>>
        ELSE IF diff_report.num_new_errors > 0 \/ diff_report.num_fixed_errors > 0
        THEN status = <<ERROR_DIFF>>
        ELSE status = <<SUCCESS>>

\* C9, amended: a run whose input has a line that from_line refuses with
\* another exception than SkipLineError exits with UNCAUGHT_EXCEPTION (1);
\* every other run exits as C9 states, the new and fixed errors being those
\* of the whole input against the whole baseline.
C9_ExitStatusUnlessAborted ==
    Exited =>
        IF args.command = ""
        THEN status = <<DEPRECATED>> /\ DEPRECATED \notin {0, ERROR_DIFF}
        ELSE IF Aborted
        THEN status = <<UNCAUGHT_EXCEPTION>>
        ELSE IF ~args.diff_old_report
        THEN status = <<SUCCESS>>
        ELSE IF InputNew > 0 \/ InputFixed > 0
        THEN status = <<ERROR_DIFF>>
        ELSE status = <<SUCCESS>>

\* a comparison with nothing new, the errors of a file of the baseline gone
C9_Witness ==
    /\ Exited
    /\ args.diff_old_report
    /\ ~Aborted
    /\ status = <<ERROR_DIFF>>
    /\ report[1].num_new_errors = 0
    /\ "a.py" \in seen
    /\ "b.py" \in DOMAIN old_report

\* The strings the change report writer was given
DiffOutput == change_report_writer(report[1])

\* C10: what the tracker's write_report writes goes to standard error and
\* not to standard output, which holds the JSON summary alone when no output
\* file is given.
C10_DiffReportOnStderr ==
    (Exited /\ nwrites > 0) =>
        /\ \A i \in DOMAIN DiffOutput :
              /\ \E k \in DOMAIN stderr : stderr[k] = DiffOutput[i]
              /\ \A k \in DOMAIN stdout : stdout[k] # DiffOutput[i]
        /\ ~args.output_file =>
              stdout = <<ErrorCounter_write_report(args.indentation)>>

-----------------------------------------------------------------------------
(* Properties of MypyMessage.from_line and from_lines *)

\* from_line was called with this line and has returned or raised
Given(line) == pc = "from_line" /\ stdin = <<line>>

\* msg without its trailing blanks
Trimmed(msg) == IF msg = "X " THEN "X" ELSE msg

\* C11, as stated: for a line "<file>:<n>: <severity>: <msg>", n a decimal
\* integer, from_line returns the record with that filename, line number,
\* severity and message, whose raw is the line less its trailing newline.
C11_RecordOfLine ==
    \A file \in LineFiles, n \in LineNumbers, severity \in Severities,
       msg \in LineMessages, end \in LineEnds :
        Given(DiagnosticLine(file, ToString(n), "", severity, msg, end))
            => /\ outcome.raises = ""
               /\ outcome.value =
                    MypyMessage(file, n, msg, severity,
                        DiagnosticLine(file, ToString(n), "", severity, msg, ""))

\* C11, amended: the line is stripped of all surrounding whitespace before
\* it is split, and raw is the line less all its trailing whitespace.  For a
\* line "<file>:<n>: <severity>: <msg>", n a decimal integer, from_line
\* returns the record with that filename, line number and severity, whose
\* message is msg less its trailing blanks and whose raw is the line less its
\* trailing blanks and newline; when msg is empty the line has two parts
\* only and from_line raises SkipLineError.
C11_RecordOfStrippedLine ==
    \A file \in LineFiles, n \in LineNumbers, severity \in Severities,
       msg \in LineMessages, end \in LineEnds :
        Given(DiagnosticLine(file, ToString(n), "", severity, msg, end))
            => IF Trimmed(msg) = ""
               THEN outcome.raises = "SkipLineError"
               ELSE /\ outcome.raises = ""
                    /\ outcome.value =
                        MypyMessage(file, n, Trimmed(msg), severity,
                            DiagnosticLine(file, ToString(n), "", severity,
                                           Trimmed(msg), ""))

\* from_line has parsed a line whose message ends in a blank
C11_Witness ==
    /\ Given("pkg/b.py:20: error: X \n")
    /\ outcome.raises = ""
    /\ outcome.value.line_number = 20
    /\ outcome.value.message = "X"
    /\ outcome.value.raw = "pkg/b.py:20: error: X"

\* C12: for a line whose location is file:line:column, from_line does what
\* it does for the line without the column: it raises the same exception or
\* returns a record with the same filename, line number, severity and
\* message; it returns a record whenever the line part is a number and the
\* message is not empty; only raw holds the column.
C12_ColumnDiscarded ==
    \A file \in LineFiles,
       n \in {ToString(k) : k \in LineNumbers} \cup NotNumbers,
       column \in {":5", ":x"}, severity \in Severities,
       msg \in LineMessages, end \in LineEnds :
        Given(DiagnosticLine(file, n, column, severity, msg, end))
            => LET plain == from_line(DiagnosticLine(file, n, "", severity, msg, end))
               IN  /\ outcome.raises = plain.raises
                   /\ (n \notin NotNumbers /\ Trimmed(msg) # "")
                        => outcome.raises = ""
                   /\ outcome.raises = ""
                        => /\ outcome.value.filename = plain.value.filename
                           /\ outcome.value.filename = file
                           /\ outcome.value.line_number = plain.value.line_number
                           /\ outcome.value.message_type = plain.value.message_type
                           /\ outcome.value.message = plain.value.message
                           /\ outcome.value.raw =
                                DiagnosticLine(file, n, column, severity,
                                               Trimmed(msg), "")

\* from_line has parsed a line with a column
C12_Witness ==
    /\ Given("a.py:20:5: note: Y: Z\n")
    /\ outcome.raises = ""
    /\ outcome.value.filename = "a.py"
    /\ outcome.value.line_number = 20
    /\ outcome.value.message = "Y: Z"

\* The lines of standard input by what they are: diagnostics and the record
\* each stands for, mypy's summary line, a diagnostic of a file as a whole,
\* and a diagnostic whose line number is no number
GoodLines ==
    {"a.py:1: error: X\n", "a.py:2:5: error: Y\n", "b.py:1: error: X\n",
     "b.py:1: note: N\n"}

RecordOf(line) ==
    CASE line = "a.py:1: error: X\n" ->
            MypyMessage("a.py", 1, "X", "error", "a.py:1: error: X")
      [] line = "a.py:2:5: error: Y\n" ->
            MypyMessage("a.py", 2, "Y", "error", "a.py:2:5: error: Y")
      [] line = "b.py:1: error: X\n" ->
            MypyMessage("b.py", 1, "X", "error", "b.py:1: error: X")
      [] line = "b.py:1: note: N\n" ->
            MypyMessage("b.py", 1, "N", "note", "b.py:1: note: N")

SummaryLine == "Found 3 errors in 2 files (checked 2 source files)\n"

WholeFileLine == "b.py: error: Source file found twice\n"

NoNumberLine == "C:\\a.py:1: error: X\n"

\* The positions of the lines of standard input that are of a kind
Positions(kind) == {i \in DOMAIN stdin : stdin[i] \in kind}

\* The records of the diagnostics of standard input, in input order
RecordsOfInput ==
    LET IsGood(line) == line \in GoodLines
        good == SelectSeq(stdin, IsGood)
    IN  [i \in DOMAIN good |-> RecordOf(good[i])]

\* The text of FilenameWithoutLineNumberError ends with the stripped line
Echoes(text, stripped) == endswith(text, "\n\n    " \o stripped)

\* C13: from_line raises SkipLineError for a line with fewer than two
\* delimiters, and from_lines, given such lines among diagnostics, drops
\* them and yields the records of the diagnostics in input order.
C13_SkippedLinesDropped ==
    /\ \A line \in SummaryLines \cup {SummaryLine} :
            Given(line) => outcome.raises = "SkipLineError"
    /\ (pc = "from_lines"
            /\ \A i \in DOMAIN stdin : stdin[i] \in GoodLines \cup {SummaryLine})
        => /\ outcome.raises = ""
           /\ outcome.value = RecordsOfInput

\* from_lines has dropped a summary line that stood between two diagnostics
C13_Witness ==
    /\ pc = "from_lines"
    /\ stdin = <<"b.py:1: note: N\n", SummaryLine, "a.py:1: error: X\n">>
    /\ outcome.raises = ""
    /\ Len(outcome.value) = 2
    /\ outcome.value[2].filename = "a.py"

\* C14: for a line "<file>: <severity>: <msg>" from_line raises
\* FilenameWithoutLineNumberError with a text that ends with the stripped
\* line; from_lines does not skip such a line: it ends with an exception,
\* and with this one when no earlier line is refused for its line number.
C14_MissingLineNumberRaised ==
    /\ \A file \in LineFiles, severity \in Severities, msg \in LineMessages,
          end \in LineEnds :
            (Given(FileLevelLine(file, severity, msg, end)) /\ Trimmed(msg) # "")
                => /\ outcome.raises = "FilenameWithoutLineNumberError"
                   /\ Echoes(outcome.text,
                             FileLevelLine(file, severity, Trimmed(msg), ""))
    /\ (pc = "from_lines" /\ Positions({WholeFileLine}) # {})
        => /\ outcome.raises \in {"FilenameWithoutLineNumberError", "ValueError"}
           /\ (\A i \in Positions({NoNumberLine}) :
                    \E j \in Positions({WholeFileLine}) : j < i)
                => /\ outcome.raises = "FilenameWithoutLineNumberError"
                   /\ Echoes(outcome.text, "b.py: error: Source file found twice")

\* from_lines has met a file-level diagnostic after a diagnostic and a
\* summary line
C14_Witness ==
    /\ pc = "from_lines"
    /\ stdin = <<"a.py:1: error: X\n", SummaryLine, WholeFileLine>>
    /\ outcome.raises = "FilenameWithoutLineNumberError"

\* C16, as stated: from_line returns a record or raises SkipLineError or
\* FilenameWithoutLineNumberError, and from_lines ends with no exception
\* other than FilenameWithoutLineNumberError.
C16_ClassifiedFailures ==
    /\ pc = "from_line"
        => outcome.raises \in {"", "SkipLineError", "FilenameWithoutLineNumberError"}
    /\ pc = "from_lines"
        => outcome.raises \in {"", "FilenameWithoutLineNumberError"}

\* C17, as stated: from_line returns no record for a location of four or
\* more parts.
C17_TwoOrThreeParts ==
    \A file \in LineFiles, n \in LineNumbers, severity \in Severities,
       msg \in LineMessages, end \in LineEnds :
        Given(DiagnosticLine(file, ToString(n), ":5:9", severity, msg, end))
            => outcome.raises # ""

\* C17, amended: from_line returns a record for a location of two or more
\* parts whose second part is a decimal integer (the message not being
\* empty): the first part is the filename, the second the line number, and
\* the parts after the second are discarded, however many they are.  A
\* location of one part gives no record.
C17_TwoOrMoreParts ==
    /\ \A file \in LineFiles, n \in LineNumbers, column \in LineColumns,
          severity \in Severities, msg \in LineMessages, end \in LineEnds :
            (Given(DiagnosticLine(file, ToString(n), column, severity, msg, end))
                    /\ Trimmed(msg) # "")
                => /\ outcome.raises = ""
                   /\ outcome.value.filename = file
                   /\ outcome.value.line_number = n
                   /\ outcome.value.message_type = severity
                   /\ outcome.value.message = Trimmed(msg)
    /\ \A line \in FileLevelLines : Given(line) => outcome.raises # ""

\* from_line has parsed a line whose location has four parts
C17_Witness ==
    /\ Given("a.py:1:5:9: error: X\n")
    /\ outcome.raises = ""
    /\ outcome.value.filename = "a.py"
    /\ outcome.value.line_number = 1

-----------------------------------------------------------------------------
(* Properties of parse_message_lines *)

\* C15: when a line of standard input is a diagnostic without a line
\* number, the run ends in from_lines with the uncaught exception: no
\* processor is given a batch, no write_report is called, nothing is written
\* to standard output or to the output file.  The exception is
\* FilenameWithoutLineNumberError, wherever the line stands, when no earlier
\* line is refused for its line number.
C15_HaltsBeforeProcessing ==
    (args.command = "parse" /\ Positions({WholeFileLine}) # {})
        => /\ pc \in {"main", "exited"}
           /\ calls = <<>>
           /\ grouped_errors = EmptyDict
           /\ nfed = 0
           /\ nwrites = 0
           /\ stdout = <<>>
           /\ output_file = ""
           /\ pc = "exited"
                => /\ status = <<UNCAUGHT_EXCEPTION>>
                   /\ outcome.raises \in {"FilenameWithoutLineNumberError", "ValueError"}
                   /\ (\A i \in Positions({NoNumberLine}) :
                            \E j \in Positions({WholeFileLine}) : j < i)
                        => /\ outcome.raises = "FilenameWithoutLineNumberError"
                           /\ Len(stderr) = 1
                           /\ Echoes(stderr[1],
                                     "b.py: error: Source file found twice\n")

\* A run with a baseline has ended on a file-level diagnostic that is the
\* last line of standard input
C15_Witness ==
    /\ pc = "exited"
    /\ args.diff_old_report
    /\ stdin = <<"a.py:1: error: X\n", "b.py:1: error: X\n", WholeFileLine>>
    /\ status = <<UNCAUGHT_EXCEPTION>>
    /\ calls = <<>>
    /\ stdout = <<>>

\* C20: in a run that from_lines does not end, each processor is given at
\* most one batch for a filename, and exactly one for each filename of a
\* parsed record once the batches are all delivered; the batch holds all
\* parsed records of that file, in input order, and no other record,
\* however the lines of the files are interleaved.
C20_OneBatchPerFile ==
    (args.command = "parse"
            /\ \A i \in DOMAIN stdin : stdin[i] \in GoodLines \cup {SummaryLine})
        => LET records == RecordsOfInput
               OfFile(filename) ==
                    LET Is(m) == m.filename = filename
                    IN  SelectSeq(records, Is)
               CallsFor(processor, filename) ==
                    {i \in DOMAIN calls : /\ calls[i].processor = processor
                                          /\ calls[i].filename = filename}
               processors == {"ErrorCounter"} \cup
                    (IF args.diff_old_report THEN {"ChangeTracker"} ELSE {})
           IN  /\ \A i \in DOMAIN calls :
                    /\ calls[i].processor \in processors
                    /\ calls[i].messages # <<>>
                    /\ calls[i].messages = OfFile(calls[i].filename)
               /\ \A processor \in processors, filename \in Files :
                    /\ Cardinality(CallsFor(processor, filename)) <= 1
                    /\ pc \in {"write", "exited"}
                        => Cardinality(CallsFor(processor, filename))
                                = (IF OfFile(filename) # <<>> THEN 1 ELSE 0)

\* A run with a baseline has delivered the batches of an input in which a
\* line of b.py stands between two lines of a.py
C20_Witness ==
    /\ pc = "exited"
    /\ args.diff_old_report
    /\ stdin = <<"a.py:1: error: X\n", "b.py:1: note: N\n", "a.py:2:5: error: Y\n">>
    /\ Len(calls) = 4
    /\ Len(calls[1].messages) = 2

-----------------------------------------------------------------------------
(* Properties of ErrorCounter.process_messages *)

\* The call of process_messages made last
LastCall == calls[Len(calls)]

\* The positions of the error records of a batch, and of those with a message
ErrorsOf(messages) ==
    {i \in DOMAIN messages : messages[i].message_type = "error"}

ErrorsWith(messages, msg) ==
    {i \in ErrorsOf(messages) : messages[i].message = msg}

\* The items of a table that hold the count of a message
ItemsFor(table, msg) == {i \in DOMAIN table : table[i].key = msg}

\* C18: after ErrorCounter.process_messages(file, batch) with an error
\* record in the batch, the table of the file holds for every message of an
\* error record of the batch the number of error records with exactly that
\* message, and holds no other message.
C18_ErrorsCounted ==
    (pc = "process_messages" /\ ErrorsOf(LastCall.messages) # {})
        => /\ LastCall.filename \in DOMAIN grouped_errors
           /\ LET table == grouped_errors[LastCall.filename]
                  batch == LastCall.messages
              IN  /\ \A i \in ErrorsOf(batch) :
                        \E j \in DOMAIN table :
                            /\ ItemsFor(table, batch[i].message) = {j}
                            /\ table[j].count
                                = Cardinality(ErrorsWith(batch, batch[i].message))
                  /\ \A j \in DOMAIN table :
                        ErrorsWith(batch, table[j].key) # {}

\* process_messages has counted a batch with the same error twice, an error
\* that differs from it in case and a note
C18_Witness ==
    /\ pc = "process_messages"
    /\ Len(LastCall.messages) = 3
    /\ Cardinality(ErrorsWith(LastCall.messages, "X")) = 2
    /\ \E i \in DOMAIN LastCall.messages :
            LastCall.messages[i].message_type = "error"
                /\ LastCall.messages[i].message = "x"
    /\ LastCall.filename \in DOMAIN grouped_errors
    /\ Len(grouped_errors[LastCall.filename]) = 2

\* C19: whatever calls of ErrorCounter.process_messages were made, no table
\* of grouped_errors is empty and every count is strictly positive; a file
\* is a key exactly when a batch of its own held an error record, so that a
\* file whose batches held notes only, or nothing, is no key.
C19_NoEmptyTables ==
    /\ \A filename \in DOMAIN grouped_errors :
        /\ grouped_errors[filename] # <<>>
        /\ \A j \in DOMAIN grouped_errors[filename] :
                grouped_errors[filename][j].count > 0
    /\ pc \in {"test", "process_messages"}
        => \A filename \in Files :
                filename \in DOMAIN grouped_errors
                    <=> \E i \in DOMAIN calls :
                            /\ calls[i].filename = filename
                            /\ ErrorsOf(calls[i].messages) # {}

\* process_messages was given a batch of notes for one file and an empty
\* batch for it, and errors for the other file
C19_Witness ==
    /\ pc = "process_messages"
    /\ Len(calls) = 3
    /\ \E i, j, k \in DOMAIN calls :
        /\ calls[i].filename = "a.py" /\ calls[i].messages = <<>>
        /\ calls[j].filename = "a.py" /\ Len(calls[j].messages) = 1
        /\ calls[j].messages[1].message_type = "note"
        /\ calls[k].filename = "b.py" /\ ErrorsOf(calls[k].messages) # {}
    /\ DOMAIN grouped_errors = {"b.py"}

-----------------------------------------------------------------------------
(* Properties of ErrorCounter.write_report *)

\* The keys of the two levels of a summary, ascending
FileOrder == <<"a.py", "b.py">>

MessageOrder == <<" X", "X", "x">>

\* Where the member of a key begins in a text, 0 when the text has none
MemberAt(text, key) == find(text, "\"" \o key \o "\": ")

\* The text from the member of a file up to the brace that closes its table
TableText(text, filename) ==
    LET from == SubSeq(text, MemberAt(text, filename), Len(text))
    IN  SubSeq(from, 1, find(from, "}"))

\* C21: ErrorCounter.write_report hands the report writer one string and
\* returns SUCCESS.  The string is "{}" and a newline for an empty summary;
\* otherwise it holds a member for each file of the summary and for no other
\* file, the files ascending, and in the table of a file a member with its
\* count for each message of the file and for no other message, the
\* messages ascending; it ends with the closing brace and one newline.
C21_SummaryWrittenOnce ==
    pc = "write_report"
        => /\ exit_code = <<SUCCESS>>
           /\ Len(stdout) = 1
           /\ LET text == stdout[1]
              IN  /\ grouped_errors = EmptyDict => text = "{}\n"
                  /\ endswith(text, "}\n")
                  /\ str_count(text, "\n")
                        = IF grouped_errors = EmptyDict THEN 1
                          ELSE 2 + SeqSum([i \in DOMAIN FileOrder |->
                                    IF FileOrder[i] \in DOMAIN grouped_errors
                                    THEN 2 + Len(grouped_errors[FileOrder[i]])
                                    ELSE 0])
                  /\ \A i \in DOMAIN FileOrder :
                        (MemberAt(text, FileOrder[i]) > 0)
                            <=> FileOrder[i] \in DOMAIN grouped_errors
                  /\ \A i, j \in DOMAIN FileOrder :
                        (i < j /\ {FileOrder[i], FileOrder[j]} \subseteq DOMAIN grouped_errors)
                            => MemberAt(text, FileOrder[i]) < MemberAt(text, FileOrder[j])
                  /\ \A filename \in DOMAIN grouped_errors :
                        LET table == grouped_errors[filename]
                            part == TableText(text, filename)
                        IN  /\ \A i \in DOMAIN MessageOrder :
                                (MemberAt(part, MessageOrder[i]) > 0)
                                    <=> ItemsFor(table, MessageOrder[i]) # {}
                            /\ \A k \in DOMAIN table :
                                contains(part, "\"" \o table[k].key \o "\": "
                                                \o ToString(table[k].count))
                            /\ \A i, j \in DOMAIN MessageOrder :
                                (/\ i < j
                                 /\ ItemsFor(table, MessageOrder[i]) # {}
                                 /\ ItemsFor(table, MessageOrder[j]) # {})
                                    => MemberAt(part, MessageOrder[i])
                                            < MemberAt(part, MessageOrder[j])

\* write_report has written a summary of two files, b.py counted first, in
\* which a.py was counted with "x" before "X"
C21_Witness ==
    /\ pc = "write_report"
    /\ Len(calls) = 2
    /\ calls[1].filename = "b.py"
    /\ DOMAIN grouped_errors = {"a.py", "b.py"}
    /\ Len(grouped_errors["a.py"]) = 2
    /\ grouped_errors["a.py"][1].key = "x"
    /\ grouped_errors["a.py"][2].key = "X"
    /\ Len(stdout) = 1

-----------------------------------------------------------------------------
(* Properties of DefaultChangeReportWriter.write_report and of DiffReport *)

\* The lines, each followed by a newline
RECURSIVE LinesText(_)
LinesText(lines) ==
    IF lines = <<>> THEN "" ELSE Head(lines) \o "\n" \o LinesText(Tail(lines))

\* The last n strings written to standard output
LastWrites(n) == SubSeq(stdout, Len(stdout) - n + 1, Len(stdout))

\* C22: DefaultChangeReportWriter.write_report makes three writes, the
\* fixed count, the new count and the total count in this order whatever
\* their values, and before them, when there are evidence lines and only
\* then, one write of the lines, each ended by a newline, and a blank line.
C22_WritesInOrder ==
    (call.op = "write_report" /\ ~args.color)
        => LET diff == report[1]
               counts ==
                    << "Fixed errors: " \o ToString(diff.num_fixed_errors) \o "\n",
                       "New errors: " \o ToString(diff.num_new_errors) \o "\n",
                       "Total errors: " \o ToString(diff.total_errors) \o "\n" >>
               expected ==
                    IF diff.error_lines = <<>> THEN counts
                    ELSE <<LinesText(diff.error_lines) \o "\n">> \o counts
           IN  /\ Len(stdout) >= Len(expected)
               /\ LastWrites(Len(expected)) = expected
               /\ nwrites = 1 => stdout = expected
               /\ Len(stdout) <= 4 * nwrites
               /\ Len(stdout) >= 3 * nwrites

\* write_report has written two evidence lines and counts that differ
C22_Witness ==
    /\ call.op = "write_report"
    /\ Len(report[1].error_lines) = 2
    /\ report[1].num_fixed_errors = 1
    /\ report[1].num_new_errors = 2
    /\ Len(stdout) = 4

\* C23, as stated: a DiffReport that diff_report has returned does not
\* change when process_messages is called on the tracker afterwards.
C23_ReportImmutable ==
    [][(report # <<>> /\ call'.op = "process_messages") => report' = report]_vars

-----------------------------------------------------------------------------
(* Properties of a run as a function of the lines it is given *)

\* What each line is to from_line
RECURSIVE Outcomes(_)
Outcomes(lines) ==
    IF lines = <<>> THEN <<>>
    ELSE <<from_line(Head(lines))>> \o Outcomes(Tail(lines))

LineOutcomes == Outcomes(stdin)

\* A line of standard input makes from_line raise something else than
\* SkipLineError
LinesRefused ==
    \E i \in DOMAIN stdin : LineOutcomes[i].raises \notin {"", "SkipLineError"}

\* How many of the lines, wherever they stand, are an error of `filename`
\* with message m
CountIn(made, filename, m) ==
    Cardinality({i \in DOMAIN made :
                    /\ made[i].raises = ""
                    /\ made[i].value.filename = filename
                    /\ made[i].value.message_type = "error"
                    /\ made[i].value.message = m})

LineCount(filename, m) == CountIn(LineOutcomes, filename, m)

LineTotal ==
    LET made == LineOutcomes
    IN  SumOver(Files \X Messages,
                [c \in Files \X Messages |-> CountIn(made, c[1], c[2])])

LineNew ==
    LET made == LineOutcomes
    IN  SumOver(Files \X Messages,
                [c \in Files \X Messages |->
                    Max2(0, CountIn(made, c[1], c[2]) - SummaryCount(c[1], c[2]))])

LineFixed ==
    LET made == LineOutcomes
    IN  SumOver(Files \X Messages,
                [c \in Files \X Messages |->
                    Max2(0, SummaryCount(c[1], c[2]) - CountIn(made, c[1], c[2]))])

\* The summary of the line counts, its tables in one fixed order of messages
LineSummary ==
    LET made == LineOutcomes
        order == <<"X", "Y">>
        Counted(filename) ==
            SelectSeq([i \in DOMAIN order |->
                            [key |-> order[i],
                             count |-> CountIn(made, filename, order[i])]],
                      LAMBDA item : item.count > 0)
    IN  [filename \in {f \in Files : Counted(f) # <<>>} |-> Counted(filename)]

\* The JSON text of the run, in the output file or first on standard output
SummaryText == IF args.output_file THEN output_file ELSE stdout[1]

\* C24: what a parse run produces is a function of how often each line
\* occurs in its input, not of where the lines stand, so that two inputs
\* that are permutations of each other, and the same input given twice,
\* produce the same summary, the same JSON text, the same three counters
\* of the DiffReport and the same exit status: a run with a line that
\* from_line refuses exits with 1 and writes nothing; any other run counts
\* for each file and message the lines that are that error.
C24_OrderIndependent ==
    (Exited /\ args.command = "parse")
        => IF LinesRefused
           THEN /\ status = <<UNCAUGHT_EXCEPTION>>
                /\ stdout = <<>>
                /\ output_file = ""
                /\ report = <<>>
           ELSE LET made == LineOutcomes
                    new == LineNew
                    fixed == LineFixed
                IN  /\ DOMAIN grouped_errors = DOMAIN LineSummary
                    /\ \A filename \in Files : \A m \in Messages :
                            CounterGet(ListOf(grouped_errors, filename), m)
                                = CountIn(made, filename, m)
                    /\ SummaryText = json_dumps(LineSummary, args.indentation) \o "\n"
                    /\ args.diff_old_report
                        => /\ report[1].total_errors = LineTotal
                           /\ report[1].num_new_errors = new
                           /\ report[1].num_fixed_errors = fixed
                    /\ status = IF args.diff_old_report /\ (new > 0 \/ fixed > 0)
                                THEN <<ERROR_DIFF>> ELSE <<SUCCESS>>

\* a run has ended whose input had an error of a.py between two of b.py
C24_Witness ==
    /\ Exited
    /\ args.diff_old_report
    /\ stdin = <<"b.py:1: error: X\n", "a.py:2:5: error: Y\n", "b.py:1: error: X\n">>
    /\ DOMAIN summary = {"b.py"}
    /\ report # <<>>
    /\ report[1].total_errors = 3
    /\ report[1].num_new_errors = 2
    /\ report[1].num_fixed_errors = 0
    /\ status = <<ERROR_DIFF>>

-----------------------------------------------------------------------------
(* Properties of the baseline a ChangeTracker holds *)

\* C25: process_messages(file, batch) leaves the baseline without an entry
\* for file, with or without an error in the batch, and with the entry it
\* had for every other file; so the baseline always holds, as given to the
\* tracker, the entries of exactly the files no call was made for.
C25_BaselineOfUnprocessedFiles ==
    /\ DOMAIN old_report = (DOMAIN summary) \ seen
    /\ \A filename \in DOMAIN old_report :
            old_report[filename] = summary[filename]
    /\ call.op = "process_messages"
        => /\ call.filename \notin DOMAIN old_report
           /\ DOMAIN old_report = (DOMAIN before.old_report) \ {call.filename}
           /\ \A filename \in DOMAIN old_report :
                old_report[filename] = before.old_report[filename]

\* process_messages was given a note and no error for b.py, a file of a
\* baseline that holds a.py too
C25_Witness ==
    /\ call.op = "process_messages"
    /\ call.filename = "b.py"
    /\ ErrorsOf(call.messages) = {}
    /\ DOMAIN summary = {"a.py", "b.py"}
    /\ DOMAIN before.old_report = {"a.py", "b.py"}
    /\ DOMAIN old_report = {"a.py"}
    /\ old_report["a.py"] = summary["a.py"]

-----------------------------------------------------------------------------
(* Properties of parse_message_lines and its list of processors *)

\* from_lines raised and the exception left parse_message_lines
Raised == pc = "raised"

\* Every group was delivered to every processor, groups outermost, the
\* processors in list order
AllDelivered ==
    LET n == Len(Processors)
    IN  /\ Len(calls) = n * Len(groups)
        /\ \A g \in DOMAIN groups : \A p \in 1..n :
                calls[(g - 1) * n + p]
                    = [processor |-> Processors[p],
                       filename |-> groups[g].filename,
                       messages |-> groups[g].messages]

\* The number of processors whose write_report was called
WriteReportCalls ==
    IF pc = "write" THEN cursor.processor - 1
    ELSE IF pc = "exited" THEN cursor.processor
    ELSE 0

\* What the write_report of the processor at position p returns and writes
ReturnedBy(p) ==
    IF Processors[p] = "ErrorCounter" THEN SUCCESS
    ELSE IF report[1].num_new_errors > 0 \/ report[1].num_fixed_errors > 0
    THEN ERROR_DIFF
    ELSE SUCCESS

WrittenBy(p) ==
    IF Processors[p] = "ErrorCounter"
    THEN <<json_dumps(grouped_errors, args.indentation) \o "\n">>
    ELSE (IF report[1].error_lines = <<>> THEN <<>>
          ELSE <<LinesText(report[1].error_lines) \o "\n">>)
         \o << "Fixed errors: " \o ToString(report[1].num_fixed_errors) \o "\n",
               "New errors: " \o ToString(report[1].num_new_errors) \o "\n",
               "Total errors: " \o ToString(report[1].total_errors) \o "\n" >>

RECURSIVE WrittenUpTo(_)
WrittenUpTo(k) == IF k = 0 THEN <<>> ELSE WrittenUpTo(k - 1) \o WrittenBy(k)

\* C26: as long as a batch is undelivered to a processor, and when
\* from_lines raised, no write_report was called; afterwards standard
\* output holds what the write_report of the first processors of the list
\* wrote, in list order, each of them but the last called having returned
\* SUCCESS; parse_message_lines returns what the last one called returned,
\* and that is not SUCCESS if a processor is left uncalled.  With the list
\* [ErrorCounter, ChangeTracker] the JSON summary is written first on every
\* call that returns, whatever is returned.
C26_WriteReportsInListOrder ==
    LET k == WriteReportCalls
    IN  /\ pc \in {"call", "process", "raised"}
            => /\ stdout = <<>>
               /\ exit_code = <<>>
               /\ report = <<>>
               /\ nwrites = 0
               /\ status = <<>>
        /\ pc \in {"write", "exited"}
            => /\ AllDelivered
               /\ stdout = WrittenUpTo(k)
               /\ \A p \in 1..(k - 1) : ReturnedBy(p) = SUCCESS
               /\ nwrites = Cardinality({p \in 1..k : Processors[p] = "ChangeTracker"})
        /\ pc = "exited"
            => /\ status = <<ReturnedBy(k)>>
               /\ k < Len(Processors) => status # <<SUCCESS>>
               /\ Processors = <<"ErrorCounter", "ChangeTracker">>
                    => /\ k = 2
                       /\ stdout[1] = json_dumps(grouped_errors, args.indentation) \o "\n"

\* the tracker, first of the list, returned ERROR_DIFF for two files and
\* the write_report of the ErrorCounter after it was not called
C26_Witness ==
    /\ pc = "exited"
    /\ Processors = <<"ChangeTracker", "ErrorCounter">>
    /\ Len(groups) = 2
    /\ Len(calls) = 4
    /\ cursor.processor = 1
    /\ status = <<ERROR_DIFF>>
    /\ DOMAIN grouped_errors = {"a.py", "b.py"}
    /\ \A i \in DOMAIN stdout : find(stdout[i], "{") = 0

\* How many batches the processor of a name has received
DeliveriesTo(name) ==
    Cardinality({i \in DOMAIN calls : calls[i].processor = name})

\* Number of error records of the g-th group with message m
GroupErrors(g, m) ==
    Cardinality({i \in DOMAIN groups[g].messages :
                    /\ groups[g].messages[i].message_type = "error"
                    /\ groups[g].messages[i].message = m})

\* The sum over the first d groups and all messages of f[<<g, m>>]
OverGroups(d, f) == SumOver((1..d) \X Messages, f)

\* The evidence lines of the g-th group against the stored summary
Evidence(g) ==
    LET idx == Index(groups[g].messages, IndexInit)
        new == CounterSub(idx.error_frequencies,
                          ListOf(summary, groups[g].filename))
    IN  Extend(LinesToVisit(new, idx.line_numbers_by_error),
               idx.messages_by_line_number)

\* C27: every processor of the list receives, for a file, the batch made
\* of the input, which stays as it was made; the state of the ErrorCounter
\* is that of the batches it has received and the state of the
\* ChangeTracker that of the batches it has received against its baseline,
\* whichever other processor is in the list and wherever.  So after the
\* last delivery the summary is the one of the input lines with or without
\* a tracker, and the DiffReport the one of the input lines and the
\* baseline with or without an ErrorCounter, before or after the tracker.
C27_ProcessorsIndependent ==
    LET n == Len(Processors)
        ec == DeliveriesTo("ErrorCounter")
        ct == DeliveriesTo("ChangeTracker")
    IN  /\ pc \in {"process", "write", "exited"}
            => groups = groupby(sorted_by_filename(Parsed.value))
        /\ \A i \in DOMAIN calls :
                LET g == ((i - 1) \div n) + 1
                    p == ((i - 1) % n) + 1
                IN  calls[i] = [processor |-> Processors[p],
                                filename |-> groups[g].filename,
                                messages |-> groups[g].messages]
        /\ DOMAIN grouped_errors \subseteq {groups[g].filename : g \in 1..ec}
        /\ \A g \in DOMAIN groups : \A m \in Messages :
                CounterGet(ListOf(grouped_errors, groups[g].filename), m)
                    = IF g <= ec THEN GroupErrors(g, m) ELSE 0
        /\ num_errors
            = OverGroups(ct, [c \in (1..ct) \X Messages |-> GroupErrors(c[1], c[2])])
        /\ num_new_errors
            = OverGroups(ct, [c \in (1..ct) \X Messages |->
                Max2(0, GroupErrors(c[1], c[2])
                            - SummaryCount(groups[c[1]].filename, c[2]))])
        /\ num_fixed_errors
            = OverGroups(ct, [c \in (1..ct) \X Messages |->
                Max2(0, SummaryCount(groups[c[1]].filename, c[2])
                            - GroupErrors(c[1], c[2]))])
        /\ DOMAIN old_report
            = (DOMAIN summary) \ {groups[g].filename : g \in 1..ct}
        /\ error_lines = Flatten([g \in 1..ct |-> Evidence(g)])
        /\ pc \in {"write", "exited"}
            => /\ HasProcessor(Processors, "ErrorCounter")
                    => /\ DOMAIN grouped_errors = DOMAIN LineSummary
                       /\ \A filename \in Files : \A m \in Messages :
                            CounterGet(ListOf(grouped_errors, filename), m)
                                = LineCount(filename, m)
               /\ HasProcessor(Processors, "ChangeTracker")
                    => diff_report
                        = DiffReport(Flatten([g \in DOMAIN groups |-> Evidence(g)]),
                                     LineTotal, LineNew, LineFixed)

\* the tracker, first of the list, and the ErrorCounter after it have
\* received the batches of two files, one with a new error
C27_Witness ==
    /\ pc = "write"
    /\ Processors = <<"ChangeTracker", "ErrorCounter">>
    /\ cursor.processor = 1
    /\ Len(calls) = 4
    /\ calls[1].messages = calls[2].messages
    /\ calls[3].messages = calls[4].messages
    /\ Len(error_lines) = 1
    /\ num_errors = 3
    /\ DOMAIN grouped_errors = {"a.py", "b.py"}

-----------------------------------------------------------------------------
(* Properties of a run against the summary of its own input *)

\* The sum of all counts of a summary
RECURSIVE SummarySum(_)
SummarySum(errors) ==
    IF DOMAIN errors = {} THEN 0
    ELSE LET filename == CHOOSE filename \in DOMAIN errors : TRUE
         IN  SeqSum([i \in DOMAIN errors[filename] |-> errors[filename][i].count])
                + SummarySum([f \in (DOMAIN errors) \ {filename} |-> errors[f]])

\* The run is the second one, against the summary the first one wrote
SecondRun == args.diff_old_report

\* C28: when the summary a run has written for an input is the baseline
\* of a run over the same input, the baseline read is the summary written,
\* and the run ends with a DiffReport without new errors, fixed errors or
\* evidence lines, whose total is the sum of all counts of the summary, and
\* with SUCCESS.
C28_SelfBaseline ==
    /\ SecondRun
        => /\ json_dumps(summary, args.indentation) \o "\n" = output_file
           /\ ~Aborted
    /\ (SecondRun /\ Exited)
        => /\ report = <<DiffReport(<<>>, SummarySum(summary), 0, 0)>>
           /\ SummarySum(summary) = LineTotal
           /\ old_report = EmptyDict
           /\ status = <<SUCCESS>>
           /\ ~args.color
                => stdout = << output_file, "Fixed errors: 0\n", "New errors: 0\n",
                               "Total errors: " \o ToString(LineTotal) \o "\n" >>

\* the second run has ended over an input with the same error of a.py twice
\* and another error of it in between
C28_Witness ==
    /\ SecondRun
    /\ Exited
    /\ stdin = <<"a.py:1: error: X\n", "a.py:2:5: error: Y\n", "a.py:1: error: X\n">>
    /\ summary = [f \in {"a.py"} |-> <<Item("X", 2), Item("Y", 1)>>]
    /\ report # <<>>
    /\ report[1].total_errors = 3
    /\ status = <<SUCCESS>>

-----------------------------------------------------------------------------
(* Properties of the counters of a DiffReport *)

\* C29: in the report diff_report returns, the errors that are not new
\* are as many as the errors of the baseline that are not fixed, the new
\* errors are between none and all errors, and the fixed errors between
\* none and all errors of the baseline: after any calls of
\* process_messages, so after calls with each file at most once.
C29_Conservation ==
    Reporting =>
        LET diff == report[1]
            baseline == SummarySum(summary)
        IN  /\ diff = diff_report
            /\ diff.total_errors - diff.num_new_errors
                    = baseline - diff.num_fixed_errors
            /\ 0 <= diff.num_new_errors
            /\ diff.num_new_errors <= diff.total_errors
            /\ 0 <= diff.num_fixed_errors
            /\ diff.num_fixed_errors <= baseline

\* diff_report was called after the one call that can leave nothing new and
\* nothing fixed for a.py, three records against a baseline of three, with
\* b.py of the baseline unseen
C29_Witness ==
    /\ Reporting
    /\ seen = {"a.py"}
    /\ nfed = 3
    /\ summary = [f \in {"a.py", "b.py"} |->
                    IF f = "a.py" THEN <<Item("X", 2), Item("Y", 1)>>
                    ELSE <<Item("X", 1)>>]
    /\ num_fixed_errors = 0
    /\ report[1] = DiffReport(<<>>, 3, 0, 1)

\* The errors of the baseline files no process_messages call was made for
UnseenErrors ==
    SumOver((DOMAIN summary) \ seen,
            [filename \in (DOMAIN summary) \ seen |-> SummaryTotal(filename)])

\* C30: a call of diff_report, alone or within write_report, leaves the
\* counters, the error_lines and the remaining baseline of the tracker as
\* they were, and returns the tracker's counters with the errors of the
\* unseen baseline files added once to the fixed ones; a call that follows
\* another with no process_messages in between returns an equal report.
C30_DiffReportReadOnly ==
    [][call'.op \in {"diff_report", "write_report"}
        => /\ Fields' = Fields
           /\ before' = Fields
           /\ report'[1].total_errors = num_errors
           /\ report'[1].num_new_errors = num_new_errors
           /\ report'[1].num_fixed_errors = num_fixed_errors + UnseenErrors
           /\ report'[1].error_lines = error_lines
           /\ Reporting => report' = report]_vars

\* write_report has reported one fixed error of a.py and, once, the two
\* errors of b.py, which is still in the baseline
C30_Witness ==
    /\ call.op = "write_report"
    /\ seen = {"a.py"}
    /\ DOMAIN old_report = {"b.py"}
    /\ SummaryTotal("b.py") = 2
    /\ num_fixed_errors = 1
    /\ before = Fields
    /\ report[1].num_fixed_errors = 3

====
